---- MODULE Spec2Model ----
(***************************************************************************)
(* Wayang: a replicated canvas / layer document (three Yjs collections)    *)
(* and the pointer-driven transform session controller built on top of it. *)
(*                                                                         *)
(* Two specifications live in this module:                                 *)
(*   Spec    two replicas of the document store of useCollaborativeCanvas  *)
(*           (three-map layout) exchanging Yjs updates;                    *)
(*   SpecUI  one client's pointer session controller (useMouse,            *)
(*           useLayerDragging, useLayerResizing) wired to the store.       *)
(***************************************************************************)
EXTENDS Integers, Sequences, FiniteSets, TLC

\* ------------------------------------------------------------------ bounds
\* total number of store operations issued by the replicas in one behaviour
MaxOps == 2
\* total number of pointer events handled in one behaviour of SpecUI
MaxEvents == 5

\* --------------------------------------------------------------- universe
Replicas == {1, 2}
Other(r) == 3 - r
CanvasIds == {"c1", "c2"}
LayerIds == {"l1", "l2", "l3", "l4"}
\* ids are random UUIDs: every replica draws from a pool of its own
CanvasPool(r) == IF r = 1 THEN <<"c1", "c2">> ELSE <<>>
LayerPool(r) == IF r = 1 THEN <<"l1", "l2", "l3">> ELSE <<"l4">>
NoId == <<0, 0>>

\* --------------------------------------------------- exact numbers (n/d)
\* JavaScript numbers are modelled as exact rationals <<n, d>>, d > 0,
\* in lowest terms; the non-finite results of x/0 are handled where the
\* code compares them.
RECURSIVE Gcd(_, _)
Gcd(a, b) == IF b = 0 THEN a ELSE Gcd(b, a % b)
Abs(i) == IF i < 0 THEN -i ELSE i
Rat(n, d) ==
  LET s == IF d < 0 THEN -1 ELSE 1
      g == Gcd(Abs(n), Abs(d))
  IN <<(s * n) \div g, (s * d) \div g>>
N(i) == <<i, 1>>
RAdd(a, b) == Rat(a[1] * b[2] + b[1] * a[2], a[2] * b[2])
RSub(a, b) == Rat(a[1] * b[2] - b[1] * a[2], a[2] * b[2])
RMul(a, b) == Rat(a[1] * b[1], a[2] * b[2])
\* only used with b # 0
RDiv(a, b) == Rat(a[1] * b[2], a[2] * b[1])
RLt(a, b) == a[1] * b[2] < b[1] * a[2]
RLe(a, b) == a[1] * b[2] <= b[1] * a[2]
RAbs(a) == <<Abs(a[1]), a[2]>>
RSign(a) == IF a[1] > 0 THEN N(1) ELSE IF a[1] < 0 THEN N(-1) ELSE N(0)
RMin(a, b) == IF RLe(a, b) THEN a ELSE b
RMax(a, b) == IF RLe(a, b) THEN b ELSE a
Pt(x, y) == [x |-> x, y |-> y]
P(i, j) == Pt(N(i), N(j))

\* ------------------------------------------------------- Yjs: item lists
\* A Yjs shared type is a list of items (tombstones included).  An item
\* is [id, origin, rightOrigin, val, deleted]; id = <<client, clock>>.
IndexOfId(chain, id) ==
  IF id = NoId \/ ~\E i \in 1..Len(chain) : chain[i].id = id THEN 0
  ELSE CHOOSE i \in 1..Len(chain) : chain[i].id = id

InsertAfter(chain, left, it) ==
  SubSeq(chain, 1, left) \o <<it>> \o SubSeq(chain, left + 1, Len(chain))

\* deleting an item keeps its place and drops its content
MarkDeleted(chain, id) ==
  [i \in 1..Len(chain) |->
     IF chain[i].id = id THEN [chain[i] EXCEPT !.deleted = TRUE, !.val = "gc"]
     ELSE chain[i]]

\* Item.integrate: scan the items right of the origin and decide, by
\* origin and client id, behind which of them the new item goes.
RECURSIVE FindLeft(_, _, _, _, _, _)
FindLeft(chain, it, o, left, before, conflicting) ==
  IF o > Len(chain) \/ chain[o].id = it.rightOrigin THEN left
  ELSE LET oi == chain[o]
           b2 == before \cup {oi.id}
           c2 == conflicting \cup {oi.id}
       IN IF oi.origin = it.origin
          THEN IF oi.id[1] < it.id[1]
               THEN FindLeft(chain, it, o + 1, o, b2, {})
               ELSE IF oi.rightOrigin = it.rightOrigin
                    THEN left
                    ELSE FindLeft(chain, it, o + 1, left, b2, c2)
          ELSE IF oi.origin # NoId /\ oi.origin \in b2
               THEN IF oi.origin \notin c2
                    THEN FindLeft(chain, it, o + 1, o, b2, {})
                    ELSE FindLeft(chain, it, o + 1, left, b2, c2)
               ELSE left

Integrate(chain, it) ==
  LET l0 == IndexOfId(chain, it.origin)
  IN InsertAfter(chain, FindLeft(chain, it, l0 + 1, l0, {}, {}), it)

\* visible (not deleted) items, in order
Visible(chain) == SelectSeq(chain, LAMBDA it : ~it.deleted)
\* Y.Array.toArray
ToArray(chain) == [i \in 1..Len(Visible(chain)) |-> Visible(chain)[i].val]
\* Array.indexOf on a plain array: 0 stands for -1, positions are 1-based
IndexOf(seq, v) ==
  IF ~\E i \in 1..Len(seq) : seq[i] = v THEN 0
  ELSE CHOOSE i \in 1..Len(seq) : seq[i] = v /\ \A j \in 1..(i - 1) : seq[j] # v

\* ---------------------------------------------------------- Yjs: Y.Map
\* One chain per key; the last item of the chain is the current value.
YMapHas(m, k) == m[k] # <<>> /\ ~m[k][Len(m[k])].deleted
\* only read where YMapHas holds
YMapGet(m, k) == m[k][Len(m[k])].val

\* integrate a map item (local or remote): the rightmost item wins, every
\* other item of the key is deleted
YMapIntegrate(chain, it) ==
  LET c2 == Integrate(chain, it)
      pos == IndexOfId(c2, it.id)
  IN IF pos = Len(c2)
     THEN IF pos > 1 THEN MarkDeleted(c2, c2[pos - 1].id) ELSE c2
     ELSE MarkDeleted(c2, it.id)

\* integrate a deletion of the item `id`
YMapApplyDelete(chain, id) == MarkDeleted(chain, id)

\* -------------------------------------------------------- document state
VARIABLES
  canvasMap,        \* [replica -> [canvas id -> chain]]   Y.Map 'canvas2'
  canvasLayersMap,  \* [replica -> [canvas id -> chain]]   Y.Map 'canvasLayers'
  layerArrays,      \* [replica -> [canvas id -> items]]   the nested Y.Array<string>
  layersMap,        \* [replica -> [layer id -> chain]]    Y.Map 'layers'
  clock,            \* [replica -> Nat]   number of items the client has created
  net,              \* [replica -> Seq(update)]  updates in flight to the replica
  canvasData,       \* React state: last rendered copy of canvasMap
  canvasLayersData, \* React state: last rendered copy of the layer id arrays
  layersData,       \* React state: last rendered copy of layersMap
  opCount,          \* number of store operations issued so far
  hist              \* history of the run, read only by the properties

storeVars == <<canvasMap, canvasLayersMap, layerArrays, layersMap, clock, net,
               canvasData, canvasLayersData, layersData, opCount, hist>>

\* The document of replica r while a handler runs on it; `out` collects the
\* updates the handler's transactions emit, in order.
DocOf(r) ==
  [me |-> r, cm |-> canvasMap[r], clm |-> canvasLayersMap[r],
   arr |-> layerArrays[r], lm |-> layersMap[r], clk |-> clock[r], out |-> <<>>]

EmptyDoc(r) ==
  [me |-> r, cm |-> [c \in CanvasIds |-> <<>>], clm |-> [c \in CanvasIds |-> <<>>],
   arr |-> [c \in CanvasIds |-> <<>>], lm |-> [l \in LayerIds |-> <<>>],
   clk |-> 0, out |-> <<>>]

\* Y.Map.set(key, value): a new item right of the current one
YMapSet(D, f, k, v) ==
  LET chain == D[f][k]
      it == [id |-> <<D.me, D.clk + 1>>,
             origin |-> IF chain = <<>> THEN NoId ELSE chain[Len(chain)].id,
             rightOrigin |-> NoId, val |-> v, deleted |-> FALSE]
  IN [D EXCEPT ![f][k] = YMapIntegrate(chain, it), !.clk = @ + 1,
               !.out = Append(@, [t |-> "set", map |-> f, key |-> k, item |-> it])]

\* Y.Map.delete(key): deletes the current item; nothing happens (and no
\* update is emitted) when the key has no value
YMapDelete(D, f, k) ==
  IF ~YMapHas(D[f], k) THEN D
  ELSE LET id == D[f][k][Len(D[f][k])].id
       IN [D EXCEPT ![f][k] = YMapApplyDelete(@, id),
                    !.out = Append(@, [t |-> "del", map |-> f, key |-> k, id |-> id])]

\* Y.Array.push([v]): behind the very last item, tombstones included
YArrayPush(D, c, v) ==
  LET chain == D.arr[c]
      it == [id |-> <<D.me, D.clk + 1>>,
             origin |-> IF chain = <<>> THEN NoId ELSE chain[Len(chain)].id,
             rightOrigin |-> NoId, val |-> v, deleted |-> FALSE]
  IN [D EXCEPT !.arr[c] = Integrate(chain, it), !.clk = @ + 1,
               !.out = Append(@, [t |-> "ins", key |-> c, item |-> it])]

\* position in the chain of the n-th visible item (n >= 1)
RECURSIVE NthVisible(_, _, _)
NthVisible(chain, n, i) ==
  IF i > Len(chain) THEN 0
  ELSE IF ~chain[i].deleted
       THEN IF n = 1 THEN i ELSE NthVisible(chain, n - 1, i + 1)
       ELSE NthVisible(chain, n, i + 1)

\* Y.Array.insert(index, [v]), index 0-based: directly right of the
\* index-th visible item, or at the very start for index 0
YArrayInsert(D, c, index, v) ==
  LET chain == D.arr[c]
      l == IF index = 0 THEN 0 ELSE NthVisible(chain, index, 1)
      it == [id |-> <<D.me, D.clk + 1>>,
             origin |-> IF l = 0 THEN NoId ELSE chain[l].id,
             rightOrigin |-> IF l < Len(chain) THEN chain[l + 1].id ELSE NoId,
             val |-> v, deleted |-> FALSE]
  IN [D EXCEPT !.arr[c] = Integrate(chain, it), !.clk = @ + 1,
               !.out = Append(@, [t |-> "ins", key |-> c, item |-> it])]

\* Y.Array.delete(index, 1), index 0-based
YArrayDelete(D, c, index) ==
  LET chain == D.arr[c]
      id == chain[NthVisible(chain, index + 1, 1)].id
  IN [D EXCEPT !.arr[c] = MarkDeleted(chain, id),
               !.out = Append(@, [t |-> "adel", key |-> c, id |-> id])]

\* a remote update arrives
ApplyUpdate(D, u) ==
  IF u.t = "set" THEN
    [D EXCEPT ![u.map][u.key] = YMapIntegrate(@, u.item)]
  ELSE IF u.t = "del" THEN
    [D EXCEPT ![u.map][u.key] = YMapApplyDelete(@, u.id)]
  ELSE IF u.t = "ins" THEN
    [D EXCEPT !.arr[u.key] = Integrate(@, u.item)]
  ELSE
    [D EXCEPT !.arr[u.key] = MarkDeleted(@, u.id)]

\* ------------------------------------------------- records of the store
\* canvasToObject
CanvasObject(c, w, h) == [id |-> c, width |-> w, height |-> h]
\* layerToObject of a freshly built layer
LayerObject(l, bl, tr, order, ow, oh) ==
  [id |-> l, bottomLeftX |-> bl.x, bottomLeftY |-> bl.y,
   topRightX |-> tr.x, topRightY |-> tr.y,
   layerOrder |-> order, oriWidth |-> ow, oriHeight |-> oh]
\* Partial<Layer>: `has` names the fields the update carries
Updates(has, bl, tr, order) ==
  [has |-> has, bottomLeft |-> bl, topRight |-> tr, layerOrder |-> order]
BoundsUpdate(bl, tr) == Updates({"bottomLeft", "topRight"}, bl, tr, 0)
OrderUpdate(order) == Updates({"layerOrder"}, P(0, 0), P(0, 0), order)

\* ------------------------------------------- the store's handlers (pure)
\* createCanvas: canvas record, then an empty layer array
createCanvas(D, c, w, h) ==
  YMapSet(YMapSet(D, "cm", c, CanvasObject(c, w, h)), "clm", c, "YArray")

\* deleteCanvas: layer ids come from the rendered React state, not from the
\* live array
RECURSIVE DeleteLayers(_, _)
DeleteLayers(D, ids) ==
  IF ids = <<>> THEN D
  ELSE DeleteLayers(YMapDelete(D, "lm", Head(ids)), Tail(ids))

deleteCanvas(D, renderedIds, c) ==
  YMapDelete(YMapDelete(DeleteLayers(D, renderedIds), "clm", c), "cm", c)

\* a mutant: the layer record is stored but its id is never pushed
addLayerToCanvas_NoPush(D, c, layer) ==
  IF ~YMapHas(D.clm, c) THEN D
  ELSE YMapSet(D, "lm", layer.id, layer)

addLayerToCanvas(D, c, layer) ==
  IF ~YMapHas(D.clm, c) THEN D
  ELSE YArrayPush(YMapSet(D, "lm", layer.id, layer), c, layer.id)

removeLayerFromCanvas(D, c, l) ==
  LET D1 == YMapDelete(D, "lm", l)
  IN IF ~YMapHas(D1.clm, c) THEN D1
     ELSE LET layerIndex == IndexOf(ToArray(D1.arr[c]), l)
          IN IF layerIndex # 0 THEN YArrayDelete(D1, c, layerIndex - 1) ELSE D1

\* a mutant: an update that carries no layerOrder resets it
updateLayer_ResetsOrder(D, l, updates) ==
  IF ~YMapHas(D.lm, l) THEN D
  ELSE LET cur == YMapGet(D.lm, l)
       IN YMapSet(D, "lm", l,
            [cur EXCEPT
               !.bottomLeftX = IF "bottomLeft" \in updates.has THEN updates.bottomLeft.x ELSE @,
               !.bottomLeftY = IF "bottomLeft" \in updates.has THEN updates.bottomLeft.y ELSE @,
               !.topRightX = IF "topRight" \in updates.has THEN updates.topRight.x ELSE @,
               !.topRightY = IF "topRight" \in updates.has THEN updates.topRight.y ELSE @,
               !.layerOrder = IF "layerOrder" \in updates.has THEN updates.layerOrder ELSE 0])

\* a mutant: an update of a layer without a record creates one
updateLayer_Upserts(D, l, updates) ==
  LET cur == IF YMapHas(D.lm, l) THEN YMapGet(D.lm, l)
             ELSE LayerObject(l, P(0, 0), P(0, 0), 0, 0, 0)
  IN YMapSet(D, "lm", l,
       [cur EXCEPT
          !.bottomLeftX = IF "bottomLeft" \in updates.has THEN updates.bottomLeft.x ELSE @,
          !.bottomLeftY = IF "bottomLeft" \in updates.has THEN updates.bottomLeft.y ELSE @,
          !.topRightX = IF "topRight" \in updates.has THEN updates.topRight.x ELSE @,
          !.topRightY = IF "topRight" \in updates.has THEN updates.topRight.y ELSE @,
          !.layerOrder = IF "layerOrder" \in updates.has THEN updates.layerOrder ELSE @])

updateLayer_RewritesOthers(D, l, updates) ==
  IF ~YMapHas(D.lm, l) THEN D
  ELSE LET cur == YMapGet(D.lm, l)
           u1 == IF "bottomLeft" \in updates.has
                 THEN [cur EXCEPT !.bottomLeftX = updates.bottomLeft.x,
                                  !.bottomLeftY = updates.bottomLeft.y]
                 ELSE cur
           u2 == IF "topRight" \in updates.has
                 THEN [u1 EXCEPT !.topRightX = updates.topRight.x,
                                 !.topRightY = updates.topRight.y]
                 ELSE u1
           u3 == IF "layerOrder" \in updates.has
                 THEN [u2 EXCEPT !.layerOrder = updates.layerOrder]
                 ELSE u2
           others == {m \in DOMAIN D.lm : m # l /\ YMapHas(D.lm, m)}
           D1 == YMapSet(D, "lm", l, u3)
       IN IF others = {} THEN D1
          ELSE LET m == CHOOSE x \in others : TRUE
               IN YMapSet(D1, "lm", m, YMapGet(D.lm, m))
updateLayer(D, l, updates) ==
  IF ~YMapHas(D.lm, l) THEN D
  ELSE LET cur == YMapGet(D.lm, l)
           u1 == IF "bottomLeft" \in updates.has
                 THEN [cur EXCEPT !.bottomLeftX = updates.bottomLeft.x,
                                  !.bottomLeftY = updates.bottomLeft.y]
                 ELSE cur
           u2 == IF "topRight" \in updates.has
                 THEN [u1 EXCEPT !.topRightX = updates.topRight.x,
                                 !.topRightY = updates.topRight.y]
                 ELSE u1
           u3 == IF "layerOrder" \in updates.has
                 THEN [u2 EXCEPT !.layerOrder = updates.layerOrder]
                 ELSE u2
       IN YMapSet(D, "lm", l, u3)

moveLayerUp_ToTop(D, c, l) ==
  IF ~YMapHas(D.clm, c) THEN D
  ELSE LET layerIds == ToArray(D.arr[c])
           layerIndex == IndexOf(layerIds, l) - 1
       IN IF layerIndex # -1 /\ layerIndex < Len(layerIds) - 1
          THEN YArrayInsert(YArrayDelete(D, c, layerIndex), c, Len(layerIds) - 1, l)
          ELSE D
moveLayerUp(D, c, l) ==
  IF ~YMapHas(D.clm, c) THEN D
  ELSE LET layerIds == ToArray(D.arr[c])
           layerIndex == IndexOf(layerIds, l) - 1
       IN IF layerIndex # -1 /\ layerIndex < Len(layerIds) - 1
          THEN YArrayInsert(YArrayDelete(D, c, layerIndex), c, layerIndex + 1, l)
          ELSE D

moveLayerDown(D, c, l) ==
  IF ~YMapHas(D.clm, c) THEN D
  ELSE LET layerIds == ToArray(D.arr[c])
           layerIndex == IndexOf(layerIds, l) - 1
       IN IF layerIndex > 0
          THEN YArrayInsert(YArrayDelete(D, c, layerIndex), c, layerIndex - 1, l)
          ELSE D

\* ------------------------------------------------ the derived view (memo)
\* Array.prototype.sort by layerOrder (stable)
RECURSIVE InsertByOrder(_, _)
InsertByOrder(sorted, x) ==
  IF sorted = <<>> THEN <<x>>
  ELSE IF x.layerOrder < sorted[Len(sorted)].layerOrder
       THEN Append(InsertByOrder(SubSeq(sorted, 1, Len(sorted) - 1), x), sorted[Len(sorted)])
       ELSE Append(sorted, x)
RECURSIVE SortByOrder(_)
SortByOrder(seq) ==
  IF seq = <<>> THEN <<>>
  ELSE InsertByOrder(SortByOrder(SubSeq(seq, 1, Len(seq) - 1)), seq[Len(seq)])

\* canvases[canvasId].layers as computed by the useMemo from the three
\* React states: ids without a record are filtered out, the rest hydrated
\* and sorted by layerOrder
RECURSIVE Hydrate(_, _)
Hydrate(ids, ld) ==
  IF ids = <<>> THEN <<>>
  ELSE IF Head(ids) \in DOMAIN ld
       THEN <<ld[Head(ids)]>> \o Hydrate(Tail(ids), ld)
       ELSE Hydrate(Tail(ids), ld)

CanvasLayers(cld, ld, c) ==
  SortByOrder(Hydrate(IF c \in DOMAIN cld THEN cld[c] ELSE <<>>, ld))

\* the React states an observer pass produces from the live document
SnapCanvasData(D) == [c \in {k \in CanvasIds : YMapHas(D.cm, k)} |-> YMapGet(D.cm, c)]
SnapCanvasLayersData(D) ==
  [c \in {k \in CanvasIds : YMapHas(D.clm, k)} |-> ToArray(D.arr[c])]
SnapLayersData(D) == [l \in {k \in LayerIds : YMapHas(D.lm, k)} |-> YMapGet(D.lm, l)]

\* ------------------------------------------------------------ resizeLayer
\* the aspect-ratio pass of resizeLayer over the corners it was handed;
\* w/0 is Infinity for w > 0 and NaN for w = 0, and NaN compares false
AdjustAspect(layer, bl, tr) ==
  LET originalAspectRatio == Rat(layer.oriWidth, layer.oriHeight)
      newWidth == RAbs(RSub(tr.x, bl.x))
      newHeight == RAbs(RSub(tr.y, bl.y))
      wider == IF newHeight = N(0) THEN newWidth # N(0)
               ELSE RLt(originalAspectRatio, RDiv(newWidth, newHeight))
      narrower == IF newHeight = N(0) THEN FALSE
                  ELSE RLt(RDiv(newWidth, newHeight), originalAspectRatio)
      adjustedWidth == RMul(newHeight, originalAspectRatio)
      adjustedHeight == RDiv(newWidth, originalAspectRatio)
  IN IF wider
     THEN IF RLt(bl.x, tr.x)
          THEN [bottomLeft |-> bl, topRight |-> Pt(RAdd(bl.x, adjustedWidth), tr.y)]
          ELSE [bottomLeft |-> Pt(RAdd(tr.x, adjustedWidth), bl.y), topRight |-> tr]
     ELSE IF narrower
          THEN IF RLt(bl.y, tr.y)
               THEN [bottomLeft |-> bl, topRight |-> Pt(tr.x, RAdd(bl.y, adjustedHeight))]
               ELSE [bottomLeft |-> Pt(bl.x, RAdd(tr.y, adjustedHeight)), topRight |-> tr]
          ELSE [bottomLeft |-> bl, topRight |-> tr]

\* resizeLayer: `layers` are the layers of the rendered active canvas
\* (<<>> when there is none)
resizeLayer(D, layers, l, bl, tr, maintainAspectRatio) ==
  IF ~\E i \in 1..Len(layers) : layers[i].id = l THEN D
  ELSE LET layer == layers[CHOOSE i \in 1..Len(layers) : layers[i].id = l]
           b == IF maintainAspectRatio THEN AdjustAspect(layer, bl, tr)
                ELSE [bottomLeft |-> bl, topRight |-> tr]
       IN updateLayer(D, l, BoundsUpdate(b.bottomLeft, b.topRight))

\* ------------------------------------------------------ the client's UI
VARIABLES
  wiring,           \* which callbacks useMouse is given: "page" or "interactions"
  activeCanvasId,   \* React state of the store hook on the interacting client
  viewLayers,       \* activeCanvas.layers: the in-memory Layer objects
  selectedLayer,    \* useMouse: id of the selected Layer object, or "null"
  mouseMode,        \* useMouse: 'move' | 'pan'
  isDragging,       \* useLayerDragging
  dragStateRef,     \* useLayerDragging
  dragSince,        \* Date.now() - lastUpdateTime.current there, capped
  isResizing,       \* useLayerResizing
  activeHandle,     \* useLayerResizing
  resizeStateRef,   \* useLayerResizing
  resizeSince,      \* Date.now() - lastUpdateTime.current there, capped
  isShiftPressed,   \* useKeyboardState
  evCount,          \* number of pointer events handled so far
  uh                \* history of the run, read only by the properties

uiVars == <<wiring, activeCanvasId, viewLayers, selectedLayer, mouseMode,
            isDragging, dragStateRef, dragSince, isResizing, activeHandle,
            resizeStateRef, resizeSince, isShiftPressed, evCount, uh>>

\* one call of the geometry kernel: its arguments and what it returned
VARIABLES kernelArgs, kernelResult

kernelVars == <<kernelArgs, kernelResult>>

\* [replica -> BOOLEAN]: provider.wsconnected, what isConnected() reports
VARIABLES wsconnected

\* the provider registry of one process (lib/collaboration.ts)
VARIABLES
  collaborationInstances,  \* [key -> index into `providers`, 0 when absent]
  providers,               \* the CollaborationProvider objects ever constructed
  live,                    \* persistence / websocket objects constructed and not destroyed
  pendingConnects,         \* connect() calls suspended at `await whenSynced`
  created,                 \* number of persistence / websocket objects constructed
  ph                       \* history of the run, read only by the properties

providerVars == <<collaborationInstances, providers, live, pendingConnects, created, ph>>

vars == <<storeVars, uiVars, kernelVars, wsconnected, providerVars>>

\* ---------------------------------------------------- inputs of the store
\* createCanvas arguments; the code stores them as given
CanvasSizes == {<<800, 600>>, <<0, 600>>}
\* uploadImage: every new layer sits at the default position with the
\* image's natural size; layerOrder is the upload timestamp
DefaultPos == 50
NaturalSize(l) == IF l = "l2" THEN <<20, 20>> ELSE <<40, 20>>
Timestamp(l) == CHOOSE i \in 1..4 : l = <<"l1", "l2", "l3", "l4">>[i]
NewLayer(l) ==
  LayerObject(l, P(DefaultPos, DefaultPos),
              P(DefaultPos + NaturalSize(l)[1], DefaultPos + NaturalSize(l)[2]),
              Timestamp(l), NaturalSize(l)[1], NaturalSize(l)[2])
\* updates callers pass to updateLayer
UpdateInputs == {BoundsUpdate(P(0, 40), P(40, 0)), OrderUpdate(0)}
\* corners a session hands to resizeLayer at its end
CommitBounds == {[bottomLeft |-> P(0, 40), topRight |-> P(60, 20)]}

\* ------------------------------------------------------- store: actions
\* a deleted layer array is unreachable: its items are dropped
Norm(D) ==
  [D EXCEPT !.arr = [c \in CanvasIds |->
                       IF D.clm[c] # <<>> /\ ~YMapHas(D.clm, c) THEN <<>> ELSE D.arr[c]]]

Install(r, D0) ==
  LET D == Norm(D0) IN
  /\ canvasMap' = [canvasMap EXCEPT ![r] = D.cm]
  /\ canvasLayersMap' = [canvasLayersMap EXCEPT ![r] = D.clm]
  /\ layerArrays' = [layerArrays EXCEPT ![r] = D.arr]
  /\ layersMap' = [layersMap EXCEPT ![r] = D.lm]
  /\ clock' = [clock EXCEPT ![r] = D.clk]

\* a handler ran on replica r: its document changes and the updates of its
\* transactions go out to the other replica
\* every Yjs call of a handler is a transaction of its own and travels as
\* an update message of its own; `part` is its position among the updates
\* of the handler call
Messages(out) ==
  [i \in 1..Len(out) |->
     [f \in DOMAIN out[i] \cup {"part"} |-> IF f = "part" THEN i ELSE out[i][f]]]

Issue_OnlineOnly(r, D) ==
  /\ opCount < MaxOps
  /\ opCount' = IF D.out = <<>> \/ ~wsconnected[r] THEN opCount ELSE opCount + 1
  /\ Install(r, IF wsconnected[r] THEN D ELSE DocOf(r))
  /\ net' = [net EXCEPT ![Other(r)] = @ \o (IF wsconnected[r] THEN Messages(D.out) ELSE <<>>)]
  /\ UNCHANGED <<canvasData, canvasLayersData, layersData, wsconnected>>
Issue(r, D) ==
  /\ opCount < MaxOps
  /\ opCount' = IF D.out = <<>> THEN opCount ELSE opCount + 1
  /\ Install(r, D)
  /\ net' = [net EXCEPT ![Other(r)] = @ \o Messages(D.out)]
  /\ UNCHANGED <<canvasData, canvasLayersData, layersData, wsconnected>>

\* ids are generated and never repeat: the next unused one of the pool
Fresh(pool, m) == {i \in 1..Len(pool) : m[pool[i]] = <<>>}
NextFresh(pool, m) == pool[CHOOSE i \in Fresh(pool, m) : \A j \in Fresh(pool, m) : i <= j]

RenderedIds(r, c) == IF c \in DOMAIN canvasLayersData[r] THEN canvasLayersData[r][c] ELSE <<>>

RECURSIVE SeqToSet(_)
SeqToSet(seq) == IF seq = <<>> THEN {} ELSE {Head(seq)} \cup SeqToSet(Tail(seq))

CreateCanvas(r) ==
  /\ Fresh(CanvasPool(r), canvasMap[r]) # {}
  /\ \E size \in CanvasSizes :
       Issue(r, createCanvas(DocOf(r), NextFresh(CanvasPool(r), canvasMap[r]),
                             size[1], size[2]))
  /\ UNCHANGED hist

DeleteCanvas(r, c) ==
  /\ Issue(r, deleteCanvas(DocOf(r), RenderedIds(r, c), c))
  /\ hist' = [hist EXCEPT
       !.doomed = @ \cup {l \in SeqToSet(RenderedIds(r, c)) : YMapHas(layersMap[r], l)},
       !.removed = @ \cup SeqToSet(RenderedIds(r, c)),
       !.deletedCanvases = @ \cup {x \in {c} : YMapHas(canvasMap[r], c)},
       !.deletes = @ \cup {[by |-> r, canvas |-> x,
                            records |-> {l \in LayerIds : YMapHas(layersMap[r], l)}] :
                              x \in {k \in {c} : YMapHas(canvasMap[r], k)}}]

AddLayer(r, c) ==
  /\ Fresh(LayerPool(r), layersMap[r]) # {}
  /\ LET l == NextFresh(LayerPool(r), layersMap[r]) IN
     /\ Issue(r, addLayerToCanvas(DocOf(r), c, NewLayer(l)))
     /\ hist' = IF YMapHas(canvasLayersMap[r], c)
                THEN [hist EXCEPT !.added = @ \cup {<<c, l>>},
                       !.concurrentAdds = @ \cup
                          {c2 \in {c} : \E i \in 1..Len(net[r]) :
                              net[r][i].t = "ins" /\ net[r][i].key = c}]
                ELSE hist

RemoveLayer(r, c, l) ==
  /\ Issue(r, removeLayerFromCanvas(DocOf(r), c, l))
  /\ hist' = [hist EXCEPT
       !.removed = @ \cup {x \in {l} : YMapHas(layersMap[r], l)},
       !.strayRemoves = @ \cup
          {x \in {l} : /\ YMapHas(layersMap[r], l)
                       /\ \/ ~YMapHas(canvasLayersMap[r], c)
                          \/ IndexOf(ToArray(layerArrays[r][c]), l) = 0}]

\* the record an operation of replica r wrote for layer l, as the history keeps it
Edit(r, l, D) ==
  [by |-> r, layer |-> l, val |-> YMapGet(D.lm, l), concurrent |-> net[r] # <<>>,
   connected |-> wsconnected[r]]
\* the sequence of canvas c after a reorder by replica r
Reorder(r, c, D) ==
  [by |-> r, canvas |-> c, seq |-> ToArray(D.arr[c]), concurrent |-> net[r] # <<>>]

UpdateLayer(r, l, updates) ==
  /\ Issue(r, updateLayer(DocOf(r), l, updates))
  /\ hist' = [hist EXCEPT
       !.lateUpdates = @ \cup
          {x \in {<<r, l>>} : x \in hist.mergedDeletes /\ ~YMapHas(layersMap[r], l)},
       !.edits = @ \cup
          {Edit(r, x, updateLayer(DocOf(r), l, updates)) :
             x \in {y \in {l} : YMapHas(layersMap[r], l)}}]

MoveLayerUp(r, c, l) ==
  /\ Issue(r, moveLayerUp(DocOf(r), c, l))
  /\ hist' = [hist EXCEPT !.reorders = @ \cup
       {Reorder(r, x, moveLayerUp(DocOf(r), c, l)) :
          x \in {y \in {c} : moveLayerUp(DocOf(r), c, l).out # <<>>}}]

MoveLayerDown(r, c, l) ==
  /\ Issue(r, moveLayerDown(DocOf(r), c, l))
  /\ hist' = [hist EXCEPT !.reorders = @ \cup
       {Reorder(r, x, moveLayerDown(DocOf(r), c, l)) :
          x \in {y \in {c} : moveLayerDown(DocOf(r), c, l).out # <<>>}}]

\* the end of a resize session on replica r: handleLayerResizeEnd hands the
\* session's layer id and final corners to resizeLayer; c is the active
\* canvas id of the client at that moment
ResizeEnd(r, c, l, b, maintainAspectRatio) ==
  /\ c \in DOMAIN canvasData[r]
  /\ \E i \in 1..Len(CanvasLayers(canvasLayersData[r], layersData[r], c)) :
        CanvasLayers(canvasLayersData[r], layersData[r], c)[i].id = l
  /\ Issue(r, resizeLayer(DocOf(r), CanvasLayers(canvasLayersData[r], layersData[r], c),
                          l, b.bottomLeft, b.topRight, maintainAspectRatio))
  /\ hist' = [hist EXCEPT
       !.committed = @ \cup
          {x \in {l} : resizeLayer(DocOf(r), CanvasLayers(canvasLayersData[r], layersData[r], c),
                                   l, b.bottomLeft, b.topRight, maintainAspectRatio).out # <<>>},
       !.edits = @ \cup
          {Edit(r, x, resizeLayer(DocOf(r), CanvasLayers(canvasLayersData[r], layersData[r], c),
                                  l, b.bottomLeft, b.topRight, maintainAspectRatio)) :
             x \in {y \in {l} :
                      resizeLayer(DocOf(r), CanvasLayers(canvasLayersData[r], layersData[r], c),
                                  l, b.bottomLeft, b.topRight, maintainAspectRatio).out # <<>>}}]

\* what the three observers read from the document of replica r
Snapshot(r) ==
  <<SnapCanvasData(DocOf(r)), SnapCanvasLayersData(DocOf(r)), SnapLayersData(DocOf(r))>>

\* replica r received some but not all updates of one handler call
MidOperation(r) == net[r] # <<>> /\ Head(net[r]).part > 1

\* React renders: the three states take the values the observers set
Render(r) ==
  /\ <<canvasData[r], canvasLayersData[r], layersData[r]>> # Snapshot(r)
  /\ canvasData' = [canvasData EXCEPT ![r] = SnapCanvasData(DocOf(r))]
  /\ canvasLayersData' = [canvasLayersData EXCEPT ![r] = SnapCanvasLayersData(DocOf(r))]
  /\ layersData' = [layersData EXCEPT ![r] = SnapLayersData(DocOf(r))]
  /\ hist' = [hist EXCEPT !.torn = @ \cup ({r} \cap hist.partial)]
  /\ UNCHANGED <<canvasMap, canvasLayersMap, layerArrays, layersMap, clock, net, opCount,
                 wsconnected>>

\* the oldest update in flight to replica r is applied; an update for a
\* layer array whose map entry is deleted lands in a deleted type
Deliver(r) ==
  /\ \A q \in Replicas : wsconnected[q]
  /\ net[r] # <<>>
  /\ LET u == Head(net[r])
         dead == u.t \in {"ins", "adel"} /\ ~YMapHas(canvasLayersMap[r], u.key)
     IN Install(r, IF dead THEN DocOf(r) ELSE ApplyUpdate(DocOf(r), u))
  /\ net' = [net EXCEPT ![r] = Tail(@)]
  /\ hist' = [hist EXCEPT
       !.mergedDeletes = @ \cup
          {x \in {<<r, Head(net[r]).key>>} :
             /\ Head(net[r]).t = "del" /\ Head(net[r]).map = "lm"
             /\ YMapHas(layersMap[r], x[2]) /\ ~YMapHas(layersMap'[r], x[2])},
       !.partial = IF ~MidOperation(r)' THEN @ \ {r}
                   ELSE IF Snapshot(r)' # Snapshot(r) THEN @ \cup {r} ELSE @]
  /\ UNCHANGED <<canvasData, canvasLayersData, layersData, opCount, wsconnected>>

\* the websocket of replica r opens; no handler hears of it
Reconnect(r) ==
  /\ ~wsconnected[r]
  /\ wsconnected' = [wsconnected EXCEPT ![r] = TRUE]
  /\ UNCHANGED storeVars

\* a nullable reference is the empty sequence (null) or a one-element one
Null == <<>>
Some(v) == <<v>>

\* ------------------------------------------------- the provider registry
\* provider objects a run constructs, and calls of the registry's API it makes
MaxProviders == 2
MaxCalls == 4
RoomIds == {"room1", "room2"}
\* the enableWebSocket a caller passes: Null when the config leaves it out
Configs == {Null, Some(TRUE), Some(FALSE)}
Keys == RoomIds \X BOOLEAN

\* `${roomId}-${config?.enableWebSocket ?? true}`
Key(roomId, config) == <<roomId, IF config = Null THEN TRUE ELSE config[1]>>

\* new CollaborationProvider({ roomId, ...config })
CollaborationProvider(roomId, config) ==
  [roomId |-> roomId, enableWebSocket |-> IF config = Null THEN TRUE ELSE config[1],
   isReady |-> FALSE, indexeddbProvider |-> 0, websocketProvider |-> 0]

NoProviderHistory == [returned |-> {}, removed |-> FALSE, calls |-> 0]

NoProviders ==
  /\ collaborationInstances = [k \in Keys |-> 0]
  /\ providers = <<>>
  /\ live = {}
  /\ pendingConnects = {}
  /\ created = 0
  /\ ph = NoProviderHistory

getCollaborationProvider(roomId, config) ==
  LET key == Key(roomId, config)
      provider == IF collaborationInstances[key] # 0 THEN collaborationInstances[key]
                  ELSE Len(providers) + 1
  IN /\ provider <= MaxProviders
     /\ ph.calls < MaxCalls
     /\ IF collaborationInstances[key] # 0
        THEN UNCHANGED <<collaborationInstances, providers>>
        ELSE /\ providers' = Append(providers, CollaborationProvider(roomId, config))
             /\ collaborationInstances' = [collaborationInstances EXCEPT ![key] = provider]
     /\ ph' = [ph EXCEPT !.returned = @ \cup {[roomId |-> roomId, provider |-> provider]},
                         !.calls = @ + 1]
     /\ UNCHANGED <<live, pendingConnects, created>>

\* the objects a provider holds are destroyed and forgotten
Disconnected(p) ==
  [providers EXCEPT ![p].websocketProvider = 0, ![p].indexeddbProvider = 0,
                    ![p].isReady = FALSE]
Destroyed(p) ==
  {o \in live : o.owner = p /\ o.id \in {providers[p].websocketProvider,
                                        providers[p].indexeddbProvider}}

disconnect(p) ==
  /\ p \in 1..Len(providers)
  /\ ph.calls < MaxCalls
  /\ providers' = Disconnected(p)
  /\ live' = live \ Destroyed(p)
  /\ ph' = [ph EXCEPT !.calls = @ + 1]
  /\ UNCHANGED <<collaborationInstances, pendingConnects, created>>

removeCollaborationProvider(roomId, enableWebSocket) ==
  LET key == <<roomId, enableWebSocket>>
      p == collaborationInstances[key]
  IN /\ p # 0
     /\ ph.calls < MaxCalls
     /\ providers' = Disconnected(p)
     /\ live' = live \ Destroyed(p)
     /\ collaborationInstances' = [collaborationInstances EXCEPT ![key] = 0]
     /\ ph' = [ph EXCEPT !.removed = TRUE, !.calls = @ + 1]
     /\ UNCHANGED <<pendingConnects, created>>

\* connect() up to its await: the guard, then the persistence is constructed
connect(p) ==
  /\ p \in 1..Len(providers)
  /\ ph.calls < MaxCalls
  /\ IF providers[p].isReady
     THEN /\ ph' = [ph EXCEPT !.calls = @ + 1]
          /\ UNCHANGED <<providers, live, pendingConnects, created>>
     ELSE /\ created' = created + 1
          /\ live' = live \cup {[kind |-> "indexeddb", owner |-> p, id |-> created']}
          /\ providers' = [providers EXCEPT ![p].indexeddbProvider = created']
          /\ pendingConnects' = pendingConnects \cup {[provider |-> p, persistence |-> created']}
          /\ ph' = [ph EXCEPT !.calls = @ + 1]
  /\ UNCHANGED collaborationInstances

\* connect() from `await whenSynced` on: the websocket, then isReady
whenSynced(call) ==
  LET p == call.provider
  IN /\ call \in pendingConnects
     /\ pendingConnects' = pendingConnects \ {call}
     /\ IF providers[p].enableWebSocket
        THEN /\ created' = created + 1
             /\ live' = live \cup {[kind |-> "websocket", owner |-> p, id |-> created']}
             /\ providers' = [providers EXCEPT ![p].websocketProvider = created',
                                               ![p].isReady = TRUE]
        ELSE /\ providers' = [providers EXCEPT ![p].isReady = TRUE]
             /\ UNCHANGED <<live, created>>
     /\ UNCHANGED <<collaborationInstances, ph>>

\* the catch branch: the wait for the persistence failed
connectFailed(call) ==
  /\ call \in pendingConnects
  /\ pendingConnects' = pendingConnects \ {call}
  /\ providers' = [providers EXCEPT ![call.provider].isReady = TRUE]
  /\ UNCHANGED <<collaborationInstances, live, created, ph>>

\* ------------------------------------------------------------- geometry
\* side of the square around a corner that grabs its handle
HANDLE_SIZE == 8

Bounds(layer) ==
  [bottomLeft |-> Pt(layer.bottomLeftX, layer.bottomLeftY),
   topRight |-> Pt(layer.topRightX, layer.topRightY)]

\* Layer.getWidth / getHeight, of a pair of corners
getWidth(b) == RAbs(RSub(b.topRight.x, b.bottomLeft.x))
getHeight(b) == RAbs(RSub(b.topRight.y, b.bottomLeft.y))

containsPoint(layer, point) ==
  LET minX == RMin(layer.bottomLeftX, layer.topRightX)
      maxX == RMax(layer.bottomLeftX, layer.topRightX)
      minY == RMin(layer.bottomLeftY, layer.topRightY)
      maxY == RMax(layer.bottomLeftY, layer.topRightY)
  IN RLe(minX, point.x) /\ RLe(point.x, maxX) /\ RLe(minY, point.y) /\ RLe(point.y, maxY)

\* handle h (0..3) is element h + 1
getHandlePositions(bottomLeft, topRight) ==
  LET x == RMin(bottomLeft.x, topRight.x)
      y == RMin(bottomLeft.y, topRight.y)
      width == RAbs(RSub(topRight.x, bottomLeft.x))
      height == RAbs(RSub(topRight.y, bottomLeft.y))
  IN <<Pt(x, y), Pt(RAdd(x, width), y), Pt(RAdd(x, width), RAdd(y, height)),
       Pt(x, RAdd(y, height))>>

\* a variant that returns the last handle whose square holds the point
getHandleAt_Last(layer, point) ==
  LET handlePositions == getHandlePositions(Bounds(layer).bottomLeft, Bounds(layer).topRight)
      half == Rat(HANDLE_SIZE, 2)
      hit(i) == /\ RLe(RSub(handlePositions[i + 1].x, half), point.x)
                /\ RLe(point.x, RAdd(handlePositions[i + 1].x, half))
                /\ RLe(RSub(handlePositions[i + 1].y, half), point.y)
                /\ RLe(point.y, RAdd(handlePositions[i + 1].y, half))
  IN IF \E i \in 0..3 : hit(i)
     THEN CHOOSE i \in 0..3 : hit(i) /\ \A j \in 0..3 : hit(j) => j <= i
     ELSE -1

\* index of the first handle whose square holds the point, -1 for null
getHandleAt(layer, point) ==
  LET handlePositions == getHandlePositions(Bounds(layer).bottomLeft, Bounds(layer).topRight)
      half == Rat(HANDLE_SIZE, 2)
      hit(i) == /\ RLe(RSub(handlePositions[i + 1].x, half), point.x)
                /\ RLe(point.x, RAdd(handlePositions[i + 1].x, half))
                /\ RLe(RSub(handlePositions[i + 1].y, half), point.y)
                /\ RLe(point.y, RAdd(handlePositions[i + 1].y, half))
  IN IF \E i \in 0..3 : hit(i)
     THEN CHOOSE i \in 0..3 : hit(i) /\ \A j \in 0..3 : hit(j) => i <= j
     ELSE -1

\* index in `layers` of the topmost layer holding the point, 0 for null
getTopLayerAt(layers, point) ==
  LET hits == {i \in 1..Len(layers) : containsPoint(layers[i], point)}
  IN IF hits = {} THEN 0 ELSE CHOOSE i \in hits : \A j \in hits : j <= i

getOppositeHandle(handleIndex) == (handleIndex + 2) % 4

\* the constrained size: the side that leads keeps its length, the other
\* follows the ratio. w/0 is Infinity for w > 0 and NaN for w = 0, and
\* NaN > r is false
constrainedSize_HeightLeads(currentWidth, currentHeight, ratio) ==
  IF (IF currentHeight = N(0) THEN currentWidth # N(0)
      ELSE RLt(ratio, RDiv(currentWidth, currentHeight)))
  THEN [width |-> RMul(currentHeight, ratio), height |-> currentHeight]
  ELSE [width |-> currentWidth, height |-> RDiv(currentWidth, ratio)]
constrainedSize(currentWidth, currentHeight, ratio) ==
  IF (IF currentHeight = N(0) THEN currentWidth # N(0)
      ELSE RLt(ratio, RDiv(currentWidth, currentHeight)))
  THEN [width |-> currentWidth, height |-> RDiv(currentWidth, ratio)]
  ELSE [width |-> RMul(currentHeight, ratio), height |-> currentHeight]

constrainedDelta(pivotPoint, deltaX, deltaY, size) ==
  Pt(RAdd(pivotPoint.x, RMul(size.width, RSign(deltaX))),
     RAdd(pivotPoint.y, RMul(size.height, RSign(deltaY))))

\* the mouse position moved onto the locked aspect ratio
constrainedMouse(mousePos, pivotPoint, deltaX, deltaY, ratio) ==
  constrainedDelta(pivotPoint, deltaX, deltaY,
                   constrainedSize(RAbs(deltaX), RAbs(deltaY), ratio))

\* <<x1, y1, x2, y2>> as the switch on the handle assigns them
handleCorners(mouse, pivotPoint, handle) ==
  CASE handle = 0 -> <<mouse.x, mouse.y, pivotPoint.x, pivotPoint.y>>
    [] handle = 1 -> <<pivotPoint.x, mouse.y, mouse.x, pivotPoint.y>>
    [] handle = 2 -> <<pivotPoint.x, pivotPoint.y, mouse.x, mouse.y>>
    [] handle = 3 -> <<mouse.x, pivotPoint.y, pivotPoint.x, mouse.y>>
    [] OTHER -> <<RMin(mouse.x, pivotPoint.x), RMin(mouse.y, pivotPoint.y),
                  RMax(mouse.x, pivotPoint.x), RMax(mouse.y, pivotPoint.y)>>

\* a variant that returns the corners as the handle's case assigned them
properBounds_AsAssigned(c) ==
  [bottomLeft |-> Pt(c[1], c[4]), topRight |-> Pt(c[3], c[2])]

\* bottomLeft is (minX, maxY), topRight is (maxX, minY)
properBounds(c) ==
  [bottomLeft |-> Pt(RMin(c[1], c[3]), RMax(c[2], c[4])),
   topRight |-> Pt(RMax(c[1], c[3]), RMin(c[2], c[4]))]

\* originalAspectRatio is Null, or Some(ratio); 0 is falsy like null
lockApplies(maintainAspectRatio, originalAspectRatio) ==
  maintainAspectRatio /\ originalAspectRatio # Null /\ originalAspectRatio[1] # N(0)

calculateNewBounds(mousePos, pivotPoint, handle, maintainAspectRatio, originalAspectRatio) ==
  IF lockApplies(maintainAspectRatio, originalAspectRatio)
  THEN properBounds(handleCorners(
         constrainedMouse(mousePos, pivotPoint, RSub(mousePos.x, pivotPoint.x),
                          RSub(mousePos.y, pivotPoint.y), originalAspectRatio[1]),
         pivotPoint, handle))
  ELSE properBounds(handleCorners(mousePos, pivotPoint, handle))

\* ---------------------------------------------------- transform sessions
ThrottleMs == 16

NullDragState ==
  [layerId |-> "null", startPos |-> Null, initialBounds |-> Null, currentBounds |-> Null]
NullResizeState ==
  [layerId |-> "null", handleIndex |-> -1, initialBounds |-> Null, currentBounds |-> Null,
   maintainAspectRatio |-> FALSE, originalAspectRatio |-> Null]

\* a callback invocation the hook asks for
Call(layerId, bounds, maintainAspectRatio) ==
  [layerId |-> layerId, bounds |-> bounds, maintainAspectRatio |-> maintainAspectRatio]

\* the preview passes when at least ThrottleMs passed since the last one
throttledLayerMove(since, call) ==
  IF call # Null /\ since >= ThrottleMs THEN [since |-> 0, call |-> call]
  ELSE [since |-> since, call |-> Null]
throttledLayerResize(since, call) ==
  IF call # Null /\ since >= ThrottleMs THEN [since |-> 0, call |-> call]
  ELSE [since |-> since, call |-> Null]

startDragging(layer, mousePos) ==
  [isDragging |-> TRUE,
   ref |-> [layerId |-> layer.id, startPos |-> Some(mousePos),
            initialBounds |-> Some(Bounds(layer)), currentBounds |-> Null]]

updateDragPosition(dragging, ref, mousePos) ==
  IF ~dragging \/ ref.startPos = Null \/ ref.initialBounds = Null \/ ref.layerId = "null"
  THEN [ref |-> ref, call |-> Null]
  ELSE LET offsetX == RSub(mousePos.x, ref.startPos[1].x)
           offsetY == RSub(mousePos.y, ref.startPos[1].y)
           ib == ref.initialBounds[1]
           nb == [bottomLeft |-> Pt(RAdd(ib.bottomLeft.x, offsetX), RAdd(ib.bottomLeft.y, offsetY)),
                  topRight |-> Pt(RAdd(ib.topRight.x, offsetX), RAdd(ib.topRight.y, offsetY))]
       IN [ref |-> [ref EXCEPT !.currentBounds = Some(nb)],
           call |-> Some(Call(ref.layerId, nb, FALSE))]

endDragging_CommitsStart(dragging, ref) ==
  IF ~dragging THEN [isDragging |-> dragging, ref |-> ref, call |-> Null]
  ELSE [isDragging |-> FALSE, ref |-> NullDragState,
        call |-> IF ref.layerId # "null"
                 THEN Some(Call(ref.layerId,
                                IF ref.currentBounds # Null THEN ref.currentBounds[1]
                                ELSE ref.initialBounds[1], FALSE))
                 ELSE Null]
endDragging(dragging, ref) ==
  IF ~dragging THEN [isDragging |-> dragging, ref |-> ref, call |-> Null]
  ELSE [isDragging |-> FALSE, ref |-> NullDragState,
        call |-> IF ref.layerId # "null" /\ ref.currentBounds # Null
                 THEN Some(Call(ref.layerId, ref.currentBounds[1], FALSE))
                 ELSE Null]

\* Layer.getAspectRatio().getFloat(): 0 when the denominator is 0
getAspectRatio(layer) ==
  IF layer.oriHeight = 0 THEN N(0) ELSE Rat(layer.oriWidth, layer.oriHeight)

\* a variant that grabs the handle opposite to the one hit
startResizing_OppositeHandle(layer, handleIndex, shiftKey) ==
  [isResizing |-> TRUE, activeHandle |-> getOppositeHandle(handleIndex),
   ref |-> [layerId |-> layer.id, handleIndex |-> getOppositeHandle(handleIndex),
            initialBounds |-> Some(Bounds(layer)), currentBounds |-> Null,
            maintainAspectRatio |-> shiftKey,
            originalAspectRatio |->
              IF shiftKey
              THEN Some(getAspectRatio(layer))
              ELSE Null]]

startResizing(layer, handleIndex, shiftKey) ==
  [isResizing |-> TRUE, activeHandle |-> handleIndex,
   ref |-> [layerId |-> layer.id, handleIndex |-> handleIndex,
            initialBounds |-> Some(Bounds(layer)), currentBounds |-> Null,
            maintainAspectRatio |-> shiftKey,
            originalAspectRatio |->
              IF shiftKey
              THEN Some(getAspectRatio(layer))
              ELSE Null]]

updateResizePosition(resizing, handle, ref, mousePos, shiftKey) ==
  IF ~resizing \/ ref.initialBounds = Null \/ ref.layerId = "null" \/ handle = -1
  THEN [ref |-> ref, call |-> Null, locked |-> Null]
  ELSE LET originalAspectRatio == IF shiftKey THEN ref.originalAspectRatio ELSE Null
           ib == ref.initialBounds[1]
           pivotPoint == getHandlePositions(ib.bottomLeft, ib.topRight)
                           [getOppositeHandle(ref.handleIndex) + 1]
           nb == calculateNewBounds(mousePos, pivotPoint, ref.handleIndex, shiftKey,
                                    originalAspectRatio)
       IN [ref |-> [ref EXCEPT !.currentBounds = Some(nb), !.maintainAspectRatio = shiftKey],
           call |-> Some(Call(ref.layerId, nb, shiftKey)),
           locked |-> Some(lockApplies(shiftKey, originalAspectRatio))]

endResizing_KeepsState(resizing, handle, ref) ==
  IF ~resizing THEN [isResizing |-> resizing, activeHandle |-> handle, ref |-> ref, call |-> Null]
  ELSE [isResizing |-> FALSE, activeHandle |-> handle,
        ref |-> [ref EXCEPT !.currentBounds = Null],
        call |-> IF ref.layerId # "null" /\ ref.currentBounds # Null
                 THEN Some(Call(ref.layerId, ref.currentBounds[1], ref.maintainAspectRatio))
                 ELSE Null]
endResizing(resizing, handle, ref) ==
  IF ~resizing THEN [isResizing |-> resizing, activeHandle |-> handle, ref |-> ref, call |-> Null]
  ELSE [isResizing |-> FALSE, activeHandle |-> -1, ref |-> NullResizeState,
        call |-> IF ref.layerId # "null" /\ ref.currentBounds # Null
                 THEN Some(Call(ref.layerId, ref.currentBounds[1], ref.maintainAspectRatio))
                 ELSE Null]

\* ------------------------------------------- the callbacks given to useMouse
\* page.tsx: the preview writes into the in-memory Layer object only
SetCorners(layers, layerId, b) ==
  [i \in 1..Len(layers) |->
     IF layers[i].id = layerId
     THEN [layers[i] EXCEPT !.bottomLeftX = b.bottomLeft.x, !.bottomLeftY = b.bottomLeft.y,
                            !.topRightX = b.topRight.x, !.topRightY = b.topRight.y]
     ELSE layers[i]]
handleLayerMove(canvasId, layers, call) ==
  IF canvasId # "null" THEN SetCorners(layers, call.layerId, call.bounds) ELSE layers
handleLayerResize(canvasId, layers, call) ==
  IF canvasId # "null" THEN SetCorners(layers, call.layerId, call.bounds) ELSE layers
\* page.tsx: the end of a session goes to the store
handleLayerMoveEnd(canvasId, D, call) ==
  IF canvasId # "null"
  THEN updateLayer(D, call.layerId, BoundsUpdate(call.bounds.bottomLeft, call.bounds.topRight))
  ELSE D
handleLayerResizeEnd(canvasId, D, layers, call) ==
  IF canvasId # "null"
  THEN resizeLayer(D, layers, call.layerId, call.bounds.bottomLeft, call.bounds.topRight,
                   call.maintainAspectRatio)
  ELSE D
\* useLayerInteractions: every preview goes to the store, the end does nothing
interactionsLayerMove(canvasId, D, call) ==
  IF canvasId # "null"
  THEN updateLayer(D, call.layerId, BoundsUpdate(call.bounds.bottomLeft, call.bounds.topRight))
  ELSE D
interactionsLayerResize(canvasId, D, call) ==
  IF canvasId # "null"
  THEN updateLayer(D, call.layerId, BoundsUpdate(call.bounds.bottomLeft, call.bounds.topRight))
  ELSE D

\* ------------------------------------------- the state after construction
NoHistory ==
  [added |-> {}, concurrentAdds |-> {}, removed |-> {}, strayRemoves |-> {},
   doomed |-> {}, deletedCanvases |-> {}, committed |-> {},
   mergedDeletes |-> {}, lateUpdates |-> {}, edits |-> {}, reorders |-> {}, deletes |-> {},
   partial |-> {}, torn |-> {}]

NoPointerHistory ==
  [lastEvent |-> "none", writes |-> <<>>, session |-> Null, candidate |-> Null, ended |-> Null,
   resize |-> Null, mouse |-> Null, locked |-> Null]

InitStore(doc) ==
  /\ canvasMap = [r \in Replicas |-> doc[r].cm]
  /\ canvasLayersMap = [r \in Replicas |-> doc[r].clm]
  /\ layerArrays = [r \in Replicas |-> doc[r].arr]
  /\ layersMap = [r \in Replicas |-> doc[r].lm]
  /\ clock = [r \in Replicas |-> doc[r].clk]
  /\ net = [r \in Replicas |-> <<>>]
  /\ canvasData = [r \in Replicas |-> SnapCanvasData(doc[r])]
  /\ canvasLayersData = [r \in Replicas |-> SnapCanvasLayersData(doc[r])]
  /\ layersData = [r \in Replicas |-> SnapLayersData(doc[r])]
  /\ opCount = 0
  /\ hist = [NoHistory EXCEPT !.added = {<<"c1", "l1">>, <<"c1", "l2">>}]

InitPointer ==
  /\ selectedLayer = "null"
  /\ mouseMode = "move"
  /\ isDragging = FALSE
  /\ dragStateRef = NullDragState
  /\ dragSince = ThrottleMs
  /\ isResizing = FALSE
  /\ activeHandle = -1
  /\ resizeStateRef = NullResizeState
  /\ resizeSince = ThrottleMs
  /\ isShiftPressed = FALSE
  /\ evCount = 0
  /\ uh = NoPointerHistory

RECURSIVE ApplyAll(_, _)
ApplyAll(D, updates) ==
  IF updates = <<>> THEN D ELSE ApplyAll(Norm(ApplyUpdate(D, Head(updates))), Tail(updates))

\* a room in use: the first client created a canvas and uploaded two images
\* to it, the second one joined and received the document
Populated ==
  addLayerToCanvas(
    addLayerToCanvas(createCanvas(EmptyDoc(1), "c1", 800, 600), "c1", NewLayer("l1")),
    "c1", NewLayer("l2"))

InitDocs ==
  [r \in Replicas |->
     IF r = 1 THEN [Populated EXCEPT !.out = <<>>]
     ELSE ApplyAll(EmptyDoc(r), Populated.out)]

Init ==
  /\ InitStore(InitDocs)
  /\ wsconnected = [r \in Replicas |-> TRUE]
  /\ NoProviders
  /\ wiring = "page"
  /\ activeCanvasId = "null"
  /\ viewLayers = <<>>
  /\ InitPointer
  /\ kernelArgs = Null
  /\ kernelResult = Null

Next ==
  \E r \in Replicas :
    /\ UNCHANGED <<uiVars, kernelVars, providerVars>>
    /\ \/ CreateCanvas(r)
       \/ \E c \in CanvasIds : DeleteCanvas(r, c)
       \/ \E c \in CanvasIds : AddLayer(r, c)
       \/ \E c \in CanvasIds, l \in LayerIds : RemoveLayer(r, c, l)
       \/ \E l \in LayerIds, u \in UpdateInputs : UpdateLayer(r, l, u)
       \/ \E c \in CanvasIds, l \in LayerIds : MoveLayerUp(r, c, l)
       \/ \E c \in CanvasIds, l \in LayerIds : MoveLayerDown(r, c, l)
       \/ \E c \in CanvasIds, l \in LayerIds, b \in CommitBounds, m \in BOOLEAN :
             ResizeEnd(r, c, l, b, m)
       \/ Render(r)
       \/ Deliver(r)

Spec == Init /\ [][Next]_vars

\* the same room when the first client starts with its websocket closed
\* (the document comes from IndexedDB) and the socket may open at any time
InitOffline ==
  /\ InitStore(InitDocs)
  /\ wsconnected = [r \in Replicas |-> r # 1]
  /\ NoProviders
  /\ wiring = "page"
  /\ activeCanvasId = "null"
  /\ viewLayers = <<>>
  /\ InitPointer
  /\ kernelArgs = Null
  /\ kernelResult = Null

NextOffline ==
  \/ Next
  \/ \E r \in Replicas : Reconnect(r) /\ UNCHANGED <<uiVars, kernelVars, providerVars>>

SpecOffline == InitOffline /\ [][NextOffline]_vars

Quiescent == \A r \in Replicas : net[r] = <<>>

\* ------------------------------------------- the pointer session controller
\* The interacting client is replica 1, alone in its room: what it writes
\* stays in its document.
UI == 1

\* pointer positions and the time between two pointer events
MousePositions == {P(60, 60), P(80, 60), P(90, 70), P(110, 70), P(10, 10)}
Elapsed == {0, ThrottleMs}
Min(a, b) == IF a <= b THEN a ELSE b

\* activeCanvas.layers as the memo computes it from the React states
ActiveCanvasLayers(D, c) ==
  IF c \in DOMAIN SnapCanvasData(D)
  THEN CanvasLayers(SnapCanvasLayersData(D), SnapLayersData(D), c)
  ELSE <<>>

IndexOfLayer(layers, l) ==
  IF \E i \in 1..Len(layers) : layers[i].id = l
  THEN CHOOSE i \in 1..Len(layers) : layers[i].id = l
  ELSE 0

\* the layer records a handler wrote to the store
RECURSIVE WritesOf(_)
WritesOf(out) ==
  IF out = <<>> THEN <<>>
  ELSE (IF Head(out).t = "set" /\ Head(out).map = "lm"
        THEN <<[layerId |-> Head(out).key, bounds |-> Bounds(Head(out).item.val)]>>
        ELSE <<>>) \o WritesOf(Tail(out))

\* the handler's store calls ran on D; React renders before the next event
Settle(D, layers) ==
  /\ Install(UI, D)
  /\ IF D.out = <<>>
     THEN /\ viewLayers' = layers
          /\ UNCHANGED <<canvasData, canvasLayersData, layersData>>
     ELSE /\ viewLayers' = ActiveCanvasLayers(D, activeCanvasId)
          /\ canvasData' = [canvasData EXCEPT ![UI] = SnapCanvasData(D)]
          /\ canvasLayersData' = [canvasLayersData EXCEPT ![UI] = SnapCanvasLayersData(D)]
          /\ layersData' = [layersData EXCEPT ![UI] = SnapLayersData(D)]
  /\ UNCHANGED <<net, opCount, hist, wiring, activeCanvasId>>

handleMouseDown(mousePos, shiftKey) ==
  LET sel == IndexOfLayer(viewLayers, selectedLayer)
      handleIndex == IF sel # 0 THEN getHandleAt(viewLayers[sel], mousePos) ELSE -1
      top == IF activeCanvasId # "null" THEN getTopLayerAt(viewLayers, mousePos) ELSE 0
      resize == mouseMode = "move" /\ handleIndex # -1
      drag == mouseMode = "move" /\ handleIndex = -1 /\ top # 0
      started == IF resize
                 THEN Some([layerId |-> selectedLayer, hadMove |-> FALSE, kind |-> "resize"])
                 ELSE IF drag
                 THEN Some([layerId |-> viewLayers[top].id, hadMove |-> FALSE, kind |-> "drag",
                            startPos |-> mousePos, corners |-> Bounds(viewLayers[top])])
                 ELSE Null
  IN /\ evCount < MaxEvents
     /\ evCount' = evCount + 1
     /\ isShiftPressed' = shiftKey
     /\ IF resize
        THEN LET r == startResizing(viewLayers[sel], handleIndex, shiftKey)
             IN /\ isResizing' = r.isResizing
                /\ activeHandle' = r.activeHandle
                /\ resizeStateRef' = r.ref
                /\ UNCHANGED <<selectedLayer, isDragging, dragStateRef>>
        ELSE /\ UNCHANGED <<isResizing, activeHandle, resizeStateRef>>
             /\ IF drag
                THEN LET d == startDragging(viewLayers[top], mousePos)
                     IN /\ selectedLayer' = viewLayers[top].id
                        /\ isDragging' = d.isDragging
                        /\ dragStateRef' = d.ref
                ELSE /\ selectedLayer' = IF mouseMode = "move" THEN "null" ELSE selectedLayer
                     /\ UNCHANGED <<isDragging, dragStateRef>>
     /\ uh' = [lastEvent |-> "down", writes |-> <<>>, ended |-> Null,
               session |-> IF uh.session = Null THEN started ELSE uh.session,
               candidate |-> IF uh.session = Null THEN Null ELSE uh.candidate,
               resize |-> IF resize
                          THEN Some([corners |-> Bounds(viewLayers[sel]),
                                     handle |-> handleIndex,
                                     ratio |-> getAspectRatio(viewLayers[sel]),
                                     shiftAtDown |-> shiftKey])
                          ELSE uh.resize,
               mouse |-> Null, locked |-> Null]
     /\ Settle(DocOf(UI), viewLayers)
     /\ UNCHANGED <<mouseMode, dragSince, resizeSince>>

handleMouseMove(mousePos, shiftKey, elapsed) ==
  LET r == updateResizePosition(isResizing, activeHandle, resizeStateRef, mousePos, shiftKey)
      rt == throttledLayerResize(Min(resizeSince + elapsed, ThrottleMs), r.call)
      d == updateDragPosition(isDragging, dragStateRef, mousePos)
      dt == throttledLayerMove(Min(dragSince + elapsed, ThrottleMs), d.call)
      resize == isResizing
      drag == ~isResizing /\ isDragging /\ mouseMode = "move"
      sample == IF resize THEN r.call ELSE IF drag THEN d.call ELSE Null
      D == IF wiring = "interactions" /\ resize /\ rt.call # Null
           THEN interactionsLayerResize(activeCanvasId, DocOf(UI), rt.call[1])
           ELSE IF wiring = "interactions" /\ drag /\ dt.call # Null
           THEN interactionsLayerMove(activeCanvasId, DocOf(UI), dt.call[1])
           ELSE DocOf(UI)
      layers == IF wiring = "page" /\ resize /\ rt.call # Null
                THEN handleLayerResize(activeCanvasId, viewLayers, rt.call[1])
                ELSE IF wiring = "page" /\ drag /\ dt.call # Null
                THEN handleLayerMove(activeCanvasId, viewLayers, dt.call[1])
                ELSE viewLayers
  IN /\ evCount < MaxEvents
     /\ evCount' = evCount + 1
     /\ isShiftPressed' = shiftKey
     /\ resizeStateRef' = IF resize THEN r.ref ELSE resizeStateRef
     /\ resizeSince' = IF resize THEN rt.since ELSE Min(resizeSince + elapsed, ThrottleMs)
     /\ dragStateRef' = IF drag THEN d.ref ELSE dragStateRef
     /\ dragSince' = IF drag THEN dt.since ELSE Min(dragSince + elapsed, ThrottleMs)
     /\ uh' = [lastEvent |-> "move", writes |-> WritesOf(D.out), ended |-> Null,
               session |-> IF uh.session = Null THEN Null
                           ELSE Some([uh.session[1] EXCEPT !.hadMove = TRUE]),
               candidate |-> IF sample # Null THEN Some(sample[1].bounds) ELSE uh.candidate,
               resize |-> uh.resize,
               mouse |-> IF resize /\ r.call # Null THEN Some(mousePos) ELSE Null,
               locked |-> IF resize THEN r.locked ELSE Null]
     /\ Settle(D, layers)
     /\ UNCHANGED <<selectedLayer, mouseMode, isDragging, isResizing, activeHandle>>

handleMouseUp ==
  LET d == endDragging(isDragging, dragStateRef)
      r == endResizing(isResizing, activeHandle, resizeStateRef)
      D1 == IF wiring = "page" /\ d.call # Null
            THEN handleLayerMoveEnd(activeCanvasId, DocOf(UI), d.call[1])
            ELSE DocOf(UI)
      D2 == IF wiring = "page" /\ r.call # Null
            THEN handleLayerResizeEnd(activeCanvasId, D1, viewLayers, r.call[1])
            ELSE D1
  IN /\ evCount < MaxEvents
     /\ evCount' = evCount + 1
     /\ isDragging' = d.isDragging
     /\ dragStateRef' = d.ref
     /\ isResizing' = r.isResizing
     /\ activeHandle' = r.activeHandle
     /\ resizeStateRef' = r.ref
     /\ isShiftPressed' = FALSE
     /\ uh' = [lastEvent |-> "up", writes |-> WritesOf(D2.out), session |-> Null,
               candidate |-> Null,
               ended |-> IF uh.session = Null THEN Null
                         ELSE Some([layerId |-> uh.session[1].layerId,
                                    hadMove |-> uh.session[1].hadMove,
                                    candidate |-> uh.candidate]),
               resize |-> Null, mouse |-> Null, locked |-> Null]
     /\ Settle(D2, viewLayers)
     /\ UNCHANGED <<selectedLayer, mouseMode, dragSince, resizeSince>>

\* the layer panel and the tool panel, used while no button is held
Idle == ~isDragging /\ ~isResizing

setSelectedLayer(l) ==
  /\ Idle
  /\ l # selectedLayer
  /\ l = "null" \/ IndexOfLayer(viewLayers, l) # 0
  /\ selectedLayer' = l
  /\ uh' = [uh EXCEPT !.lastEvent = "select", !.writes = <<>>, !.ended = Null]
  /\ UNCHANGED <<storeVars, wiring, activeCanvasId, viewLayers, mouseMode, isDragging,
                 dragStateRef, dragSince, isResizing, activeHandle, resizeStateRef,
                 resizeSince, isShiftPressed, evCount>>

setMouseMode(m) ==
  /\ Idle
  /\ m # mouseMode
  /\ mouseMode' = m
  /\ uh' = [uh EXCEPT !.lastEvent = "mode", !.writes = <<>>, !.ended = Null]
  /\ UNCHANGED <<storeVars, wiring, activeCanvasId, viewLayers, selectedLayer, isDragging,
                 dragStateRef, dragSince, isResizing, activeHandle, resizeStateRef,
                 resizeSince, isShiftPressed, evCount>>

\* one client with the canvas of the room open, under either wiring
InitUI ==
  /\ InitStore(InitDocs)
  /\ wsconnected = [r \in Replicas |-> TRUE]
  /\ NoProviders
  /\ wiring \in {"page", "interactions"}
  /\ activeCanvasId = "c1"
  /\ viewLayers = ActiveCanvasLayers(InitDocs[UI], "c1")
  /\ InitPointer
  /\ kernelArgs = Null
  /\ kernelResult = Null

NextUI ==
  /\ UNCHANGED <<kernelVars, wsconnected, providerVars>>
  /\ \/ \E mousePos \in MousePositions, shiftKey \in BOOLEAN :
           handleMouseDown(mousePos, shiftKey)
     \/ \E mousePos \in MousePositions, shiftKey \in BOOLEAN, elapsed \in Elapsed :
           handleMouseMove(mousePos, shiftKey, elapsed)
     \/ handleMouseUp
     \/ \E l \in LayerIds \cup {"null"} : setSelectedLayer(l)
     \/ \E m \in {"move", "pan"} : setMouseMode(m)

SpecUI == InitUI /\ [][NextUI]_vars

\* the room later on: l1 was resized by its handle 0 to 40 x 10 and then
\* moved up, so the id sequence is [l2, l1]
EditedRoom ==
  moveLayerUp(updateLayer(Populated, "l1", BoundsUpdate(P(50, 70), P(90, 60))), "c1", "l1")

EditedDocs ==
  [r \in Replicas |->
     IF r = 1 THEN [EditedRoom EXCEPT !.out = <<>>]
     ELSE ApplyAll(EmptyDoc(r), EditedRoom.out)]

InitSession ==
  /\ InitStore(EditedDocs)
  /\ wsconnected = [r \in Replicas |-> TRUE]
  /\ NoProviders
  /\ wiring = "page"
  /\ activeCanvasId = "c1"
  /\ viewLayers = ActiveCanvasLayers(EditedDocs[UI], "c1")
  /\ InitPointer
  /\ kernelArgs = Null
  /\ kernelResult = Null

\* the window loses the focus during a session; useMouse listens to
\* mousedown, mousemove and mouseup only, so nothing runs
windowBlur ==
  /\ ~Idle
  /\ evCount < MaxEvents
  /\ evCount' = evCount + 1
  /\ uh' = [uh EXCEPT !.lastEvent = "blur", !.writes = <<>>]
  /\ UNCHANGED <<storeVars, wiring, activeCanvasId, viewLayers, selectedLayer, mouseMode,
                 isDragging, dragStateRef, dragSince, isResizing, activeHandle,
                 resizeStateRef, resizeSince, isShiftPressed, kernelVars, wsconnected,
                 providerVars>>

NextSession == NextUI \/ windowBlur

SpecSession == InitSession /\ [][NextSession]_vars

\* ------------------------------------------------- the geometry kernel
\* calculateNewBounds on its own: pivots are the bottom-left corner of a
\* 200x100 image at the default position and the origin; the mouse
\* positions lie on a grid around them, on and off the pivots' axes
KernelLayer == LayerObject("l1", P(DefaultPos, DefaultPos), P(DefaultPos + 200, DefaultPos + 100),
                           1, 200, 100)
KernelPivots == {getHandlePositions(Bounds(KernelLayer).bottomLeft, Bounds(KernelLayer).topRight)[4],
                 P(0, 0)}
KernelMouse == {P(x, y) : x \in {-50, 50, 250, 450}, y \in {-150, -50, 50, 150, 250}}
KernelRatios == {Null, Some(N(0)), Some(Rat(1, 2)), Some(N(2))}
KernelInputs ==
  [mousePos : KernelMouse, pivotPoint : KernelPivots, handle : 0..3,
   maintainAspectRatio : BOOLEAN, originalAspectRatio : KernelRatios]

Resize ==
  /\ kernelArgs # Null
  /\ kernelResult = Null
  /\ kernelResult' = Some(calculateNewBounds(kernelArgs[1].mousePos, kernelArgs[1].pivotPoint,
                                              kernelArgs[1].handle,
                                              kernelArgs[1].maintainAspectRatio,
                                              kernelArgs[1].originalAspectRatio))
  /\ UNCHANGED <<storeVars, uiVars, kernelArgs, wsconnected, providerVars>>

InitKernel ==
  /\ InitStore(InitDocs)
  /\ wsconnected = [r \in Replicas |-> TRUE]
  /\ NoProviders
  /\ wiring = "page"
  /\ activeCanvasId = "null"
  /\ viewLayers = <<>>
  /\ InitPointer
  /\ kernelArgs \in {Some(a) : a \in KernelInputs}
  /\ kernelResult = Null

NextKernel == Resize

SpecKernel == InitKernel /\ [][NextKernel]_vars

\* the Fraction class on its own: Fraction.simplify as the constructor runs
\* it, on integers; gcd(a, b) works on the absolute values
Fraction(numerator, denominator) ==
  LET gcdValue == Gcd(Abs(numerator), Abs(denominator))
      n == IF gcdValue = 0 THEN 0 ELSE numerator \div gcdValue
      d == IF gcdValue = 0 THEN 0 ELSE denominator \div gcdValue
      shouldNegative == d < 0 \/ (d = 0 /\ n < 0)
  IN IF gcdValue = 0 THEN [numerator |-> 0, denominator |-> 0]
     ELSE IF shouldNegative THEN [numerator |-> -n, denominator |-> -d]
     ELSE [numerator |-> n, denominator |-> d]

getFloat(f) == IF f.denominator = 0 THEN N(0) ELSE Rat(f.numerator, f.denominator)

FractionInputs == [numerator : -6..6, denominator : -6..6]

NewFraction ==
  /\ kernelArgs # Null
  /\ kernelResult = Null
  /\ kernelResult' = Some(Fraction(kernelArgs[1].numerator, kernelArgs[1].denominator))
  /\ UNCHANGED <<storeVars, uiVars, kernelArgs, wsconnected, providerVars>>

InitFraction ==
  /\ InitStore(InitDocs)
  /\ wsconnected = [r \in Replicas |-> TRUE]
  /\ NoProviders
  /\ wiring = "page"
  /\ activeCanvasId = "null"
  /\ viewLayers = <<>>
  /\ InitPointer
  /\ kernelArgs \in {Some(a) : a \in FractionInputs}
  /\ kernelResult = Null

NextFraction == NewFraction

SpecFraction == InitFraction /\ [][NextFraction]_vars

\* the registry on its own: callers ask for providers of two rooms, online
\* and local, connect them, and drop them
InitProvider ==
  /\ InitStore(InitDocs)
  /\ wsconnected = [r \in Replicas |-> TRUE]
  /\ NoProviders
  /\ wiring = "page"
  /\ activeCanvasId = "null"
  /\ viewLayers = <<>>
  /\ InitPointer
  /\ kernelArgs = Null
  /\ kernelResult = Null

NextProvider ==
  /\ UNCHANGED <<storeVars, uiVars, kernelVars, wsconnected>>
  /\ \/ \E roomId \in RoomIds, config \in Configs : getCollaborationProvider(roomId, config)
     \/ \E roomId \in RoomIds, enableWebSocket \in BOOLEAN :
           removeCollaborationProvider(roomId, enableWebSocket)
     \/ \E p \in 1..MaxProviders : connect(p)
     \/ \E call \in pendingConnects : whenSynced(call)
     \/ \E call \in pendingConnects : connectFailed(call)
     \/ \E p \in 1..MaxProviders : disconnect(p)

SpecProvider == InitProvider /\ [][NextProvider]_vars

\* ------------------------------------------------- properties of the store
\* the layer-id sequence of canvas c as replica r holds it
Ids(r, c) == IF YMapHas(canvasLayersMap[r], c) THEN ToArray(layerArrays[r][c]) ELSE <<>>
Count(seq, x) == Cardinality({i \in 1..Len(seq) : seq[i] = x})
HasRecord(r, l) == YMapHas(layersMap[r], l)
AllHaveRecords(r) ==
  \A c \in CanvasIds : \A i \in 1..Len(Ids(r, c)) : HasRecord(r, Ids(r, c)[i])
NoDuplicates(r) ==
  \A c \in CanvasIds : \A l \in LayerIds : Count(Ids(r, c), l) <= 1

\* C1: on a single replica, after any sequence of store operations with
\* arbitrary arguments, every id in every layer-id sequence has a layer
\* record and no sequence holds an id twice.
C1_SingleReplicaInvariant ==
  clock[2] = 0 => AllHaveRecords(1) /\ NoDuplicates(1)

\* C2: after two replicas ran operations concurrently and exchanged all of
\* them, every id in every sequence on either replica has a record (removes
\* are aimed at the canvas that holds the layer).
C2_MergedIdsHaveRecords ==
  Quiescent /\ hist.strayRemoves = {} => \A r \in Replicas : AllHaveRecords(r)

\* C3: after concurrent reorders (nothing removed, no canvas deleted) are
\* exchanged, each sequence holds exactly the ids added to it, each once.
C3_ReorderKeepsIdSet ==
  Quiescent /\ hist.removed = {} /\ hist.deletedCanvases = {} =>
    \A r \in Replicas, c \in CanvasIds, l \in LayerIds :
      Count(Ids(r, c), l) = IF <<c, l>> \in hist.added THEN 1 ELSE 0

\* C4: after concurrent adds to one canvas are exchanged, both replicas hold
\* the same sequence for it, and it contains every layer added to it (that
\* nobody removed since).
C4_ConcurrentAddsConverge ==
  Quiescent =>
    \A c \in CanvasIds :
      /\ Ids(1, c) = Ids(2, c)
      /\ \A l \in LayerIds :
           <<c, l>> \in hist.added /\ l \notin hist.removed /\ c \notin hist.deletedCanvases
             => \A r \in Replicas : Count(Ids(r, c), l) >= 1

\* C4 witness: two adds to c1 crossed on the wire and both layers are there
C4_Witness ==
  /\ Quiescent
  /\ "c1" \in hist.concurrentAdds
  /\ \A r \in Replicas : Count(Ids(r, "c1"), "l3") = 1 /\ Count(Ids(r, "c1"), "l4") = 1

\* C5: a canvas is deleted on one replica while another ends a resize
\* session on one of its layers; once everything is exchanged neither
\* replica holds a record for that layer.
C5_DeletedCanvasLayerStaysDeleted ==
  Quiescent =>
    \A l \in hist.doomed \cap hist.committed : \A r \in Replicas : ~HasRecord(r, l)

\* -------------------------------------- properties of the session controller
\* C6: a session with at least one pointer-move makes exactly one store
\* write, at pointer-up; pointer-down and pointer-move make none.
C6_OneWritePerSession ==
  /\ uh.lastEvent \in {"down", "move"} => uh.writes = <<>>
  /\ uh.lastEvent = "up" /\ uh.ended # Null /\ uh.ended[1].hadMove => Len(uh.writes) = 1

\* C7: the corners written at pointer-up are the candidate computed from
\* the last pointer-move sample of the session.
C7_CommitIsLastCandidate ==
  uh.lastEvent = "up" =>
    \A i \in 1..Len(uh.writes) :
      /\ uh.ended # Null
      /\ uh.ended[1].candidate = Some(uh.writes[i].bounds)

\* C8: a press and release with no pointer-move in between writes nothing
\* to the store.
C8_ClickWritesNothing ==
  uh.lastEvent = "up" /\ (uh.ended = Null \/ ~uh.ended[1].hadMove) => uh.writes = <<>>

\* C8 witness: a session was started and released without a move
C8_Witness ==
  uh.lastEvent = "up" /\ uh.ended # Null /\ ~uh.ended[1].hadMove /\ uh.writes = <<>>

\* C9: a pointer-down that arrives while a session is active is ignored:
\* it starts no session and leaves the target, the kind, the handle and
\* the start corners of the active one as they are.
C9_PointerDownIgnoredWhileActive ==
  [][(isDragging \/ isResizing) /\ uh'.lastEvent = "down" /\ evCount' = evCount + 1
       => UNCHANGED <<isDragging, isResizing, activeHandle, dragStateRef, resizeStateRef>>]_vars

\* C10: after every pointer-up the controller is idle: neither dragging
\* nor resizing, no handle, and both session records cleared.
C10_IdleAfterPointerUp ==
  uh.lastEvent = "up" =>
    /\ ~isDragging /\ ~isResizing /\ activeHandle = -1
    /\ dragStateRef = NullDragState
    /\ resizeStateRef = NullResizeState

\* C10 witness: a resize session with a move has just been released
C10_Witness ==
  /\ uh.lastEvent = "up" /\ uh.ended # Null /\ uh.ended[1].hadMove
  /\ uh.writes # <<>>
  /\ Idle /\ resizeStateRef = NullResizeState /\ dragStateRef = NullDragState

\* C11: on every pointer-move of a resize session the aspect-locked branch
\* of calculateNewBounds is taken exactly when the modifier key is held at
\* that move, whatever the key's state was at pointer-down or before.
C11_LockFollowsModifier ==
  uh.lastEvent = "move" /\ uh.locked # Null => (uh.locked[1] <=> isShiftPressed)

\* the bounds a resize yields from the corners at session start, the mouse
\* position and the lock flag alone
ResizedFromStart(start, mousePos, lockAspect) ==
  calculateNewBounds(
    mousePos,
    getHandlePositions(start.corners.bottomLeft, start.corners.topRight)
      [getOppositeHandle(start.handle) + 1],
    start.handle, lockAspect, Some(start.ratio))

\* C12: the candidate bounds of a pointer-move in a resize session are
\* determined by the corners at session start (their corner opposite the
\* grabbed handle is the pivot), the mouse position of that move and the
\* lock flag of that move; earlier samples and previewed corners play no part.
C12_CandidateFromSessionStart ==
  uh.lastEvent = "move" /\ uh.mouse # Null /\ uh.resize # Null
    => uh.candidate = Some(ResizedFromStart(uh.resize[1], uh.mouse[1], isShiftPressed))


\* the call the kernel specification made: deltas from pivot to mouse
KernelDeltaX == RSub(kernelArgs[1].mousePos.x, kernelArgs[1].pivotPoint.x)
KernelDeltaY == RSub(kernelArgs[1].mousePos.y, kernelArgs[1].pivotPoint.y)
KernelLocked ==
  /\ kernelResult # Null
  /\ lockApplies(kernelArgs[1].maintainAspectRatio, kernelArgs[1].originalAspectRatio)
  /\ RLt(N(0), kernelArgs[1].originalAspectRatio[1])

\* C13: with aspect lock on, for every handle index, every original ratio
\* r > 0 and every mouse position, the returned bounds have width / height = r.
C13_LockedRatioPreserved ==
  KernelLocked =>
    /\ getHeight(kernelResult[1]) # N(0)
    /\ RDiv(getWidth(kernelResult[1]), getHeight(kernelResult[1]))
         = kernelArgs[1].originalAspectRatio[1]

\* C14: with aspect lock on, if |dx| / |dy| from pivot to mouse is greater
\* than the original ratio, the result keeps height = |dy| and has
\* width = height * ratio; otherwise it keeps width = |dx| and has
\* height = width / ratio. Stated for mouse positions off the pivot's axes.
C14_GreaterKeepsHeight ==
  KernelLocked /\ KernelDeltaX # N(0) /\ KernelDeltaY # N(0) =>
    IF RLt(kernelArgs[1].originalAspectRatio[1], RDiv(RAbs(KernelDeltaX), RAbs(KernelDeltaY)))
    THEN /\ getHeight(kernelResult[1]) = RAbs(KernelDeltaY)
         /\ getWidth(kernelResult[1])
              = RMul(RAbs(KernelDeltaY), kernelArgs[1].originalAspectRatio[1])
    ELSE /\ getWidth(kernelResult[1]) = RAbs(KernelDeltaX)
         /\ getHeight(kernelResult[1])
              = RDiv(RAbs(KernelDeltaX), kernelArgs[1].originalAspectRatio[1])

\* the scenario's call: the 200x100 image at the default position, grabbed
\* at handle 1 with the modifier key held, the mouse 400 to the right of
\* the pivot and above it by at most 200
C15_Dragged ==
  /\ kernelResult # Null
  /\ kernelArgs[1].handle = 1
  /\ kernelArgs[1].pivotPoint =
       getHandlePositions(Bounds(KernelLayer).bottomLeft, Bounds(KernelLayer).topRight)
         [getOppositeHandle(1) + 1]
  /\ kernelArgs[1].maintainAspectRatio
  /\ kernelArgs[1].originalAspectRatio = startResizing(KernelLayer, 1, TRUE).ref.originalAspectRatio
  /\ KernelDeltaX = N(400)
  /\ RLe(N(-200), KernelDeltaY) /\ RLt(KernelDeltaY, N(0))

IdsOf(layers) == [i \in 1..Len(layers) |-> layers[i].id]

\* C16: the derived view lists each canvas's layers in exactly the order of
\* the canvas's layer-id sequence, whatever the layers' layerOrder values
\* are (ids without a record are left out).
C16_ViewFollowsSequence ==
  \A r \in Replicas : \A c \in DOMAIN canvasData[r] :
    IdsOf(CanvasLayers(canvasLayersData[r], layersData[r], c))
      = SelectSeq(RenderedIds(r, c), LAMBDA l : l \in DOMAIN layersData[r])

\* C17: removeLayer(canvasId, layerId) with an unknown canvasId or an
\* unknown layerId modifies no layer record, no sequence and no canvas.
C17_RemoveUnknownIsNoop ==
  [][\A r \in Replicas, c \in CanvasIds, l \in LayerIds :
       /\ RemoveLayer(r, c, l)
       /\ ~YMapHas(canvasMap[r], c) \/ ~YMapHas(layersMap[r], l)
       => UNCHANGED <<canvasMap, canvasLayersMap, layerArrays, layersMap>>]_vars

\* C18: after deleteCanvas(c) for a known canvas c the store holds no canvas
\* record for c, no layer sequence for c and no layer record for any id
\* that was in c's sequence when the call was made.
C18_DeleteCanvasDeletesLayers ==
  [][\A r \in Replicas, c \in CanvasIds :
       DeleteCanvas(r, c) /\ YMapHas(canvasMap[r], c)
       => /\ ~YMapHas(canvasMap'[r], c)
          /\ ~YMapHas(canvasLayersMap'[r], c)
          /\ \A l \in SeqToSet(ToArray(layerArrays[r][c])) : ~YMapHas(layersMap'[r], l)]_vars

\* the records a Y.Map holds for the given keys
RecordsOf(m, keys) == [k \in {x \in keys : YMapHas(m, x)} |-> YMapGet(m, k)]

\* C19: updateLayer on an existing layer changes only the supplied fields
\* of that layer's record; its other fields, every other layer record,
\* every layer sequence and every canvas record stay as they are.
C19_UpdateTouchesSuppliedFieldsOnly ==
  [][\A r \in Replicas, l \in LayerIds, u \in UpdateInputs :
       UpdateLayer(r, l, u) /\ YMapHas(layersMap[r], l)
       => /\ YMapHas(layersMap'[r], l)
          /\ YMapGet(layersMap'[r], l) =
               [YMapGet(layersMap[r], l) EXCEPT
                  !.bottomLeftX = IF "bottomLeft" \in u.has THEN u.bottomLeft.x ELSE @,
                  !.bottomLeftY = IF "bottomLeft" \in u.has THEN u.bottomLeft.y ELSE @,
                  !.topRightX = IF "topRight" \in u.has THEN u.topRight.x ELSE @,
                  !.topRightY = IF "topRight" \in u.has THEN u.topRight.y ELSE @,
                  !.layerOrder = IF "layerOrder" \in u.has THEN u.layerOrder ELSE @]
          /\ RecordsOf(layersMap'[r], LayerIds \ {l}) = RecordsOf(layersMap[r], LayerIds \ {l})
          /\ RecordsOf(canvasMap'[r], CanvasIds) = RecordsOf(canvasMap[r], CanvasIds)
          /\ \A c \in CanvasIds :
               /\ YMapHas(canvasLayersMap'[r], c) = YMapHas(canvasLayersMap[r], c)
               /\ ToArray(layerArrays'[r][c]) = ToArray(layerArrays[r][c])]_vars

\* updateLayer moved the corners of l1 on replica 1 and nothing else
C19_Witness ==
  /\ YMapHas(layersMap[1], "l1")
  /\ YMapGet(layersMap[1], "l1") =
       [NewLayer("l1") EXCEPT !.bottomLeftX = N(0), !.bottomLeftY = N(40),
                              !.topRightX = N(40), !.topRightY = N(0)]
  /\ YMapHas(layersMap[1], "l2") /\ YMapGet(layersMap[1], "l2") = NewLayer("l2")
  /\ Ids(1, "c1") = <<"l1", "l2">>

\* C20: updateLayer for a layer id without a record on the local replica,
\* in particular after another replica's deletion merged in, changes
\* nothing in the store.
C20_UpdateOfMissingIsNoop ==
  [][\A r \in Replicas, l \in LayerIds, u \in UpdateInputs :
       UpdateLayer(r, l, u) /\ ~YMapHas(layersMap[r], l)
       => UNCHANGED <<canvasMap, canvasLayersMap, layerArrays, layersMap, clock, net>>]_vars

\* updateLayer was called for a layer whose deletion by the other replica
\* had merged in, and the layer still has no record
C20_Witness ==
  \E x \in hist.lateUpdates : x \in hist.mergedDeletes /\ ~YMapHas(layersMap[x[1]], x[2])

\* the whole run was edits of distinct layers and at most one reorder
EditsAndReorderOnly ==
  /\ hist.edits # {}
  /\ Cardinality(hist.edits) + Cardinality(hist.reorders) = opCount
  /\ Cardinality(hist.reorders) <= 1
  /\ \A e1, e2 \in hist.edits : e1.layer = e2.layer => e1 = e2

\* C21: when a replica commits new bounds of a layer while the other replica
\* edits a different layer or reorders the sequence, then after the replicas
\* exchanged their updates every replica holds the committed record of each
\* edited layer and the reordered sequence
C21_EditsOfDistinctLayersMerge ==
  Quiescent /\ EditsAndReorderOnly =>
    \A r \in Replicas :
      /\ \A e \in hist.edits :
            YMapHas(layersMap[r], e.layer) /\ YMapGet(layersMap[r], e.layer) = e.val
      /\ \A o \in hist.reorders :
            YMapHas(canvasLayersMap[r], o.canvas) /\ Ids(r, o.canvas) = o.seq

\* a resize of l1 committed on replica 1 and a concurrent edit of l2 on
\* replica 2, merged
C21_Witness ==
  /\ Quiescent /\ EditsAndReorderOnly
  /\ \E e1, e2 \in hist.edits :
        /\ e1.by = 1 /\ e1.layer = "l1" /\ e2.by = 2 /\ e2.layer = "l2"
        /\ e1.concurrent \/ e2.concurrent
        /\ "l1" \in hist.committed
        /\ \A r \in Replicas : /\ YMapGet(layersMap[r], "l1") = e1.val
                                /\ YMapGet(layersMap[r], "l2") = e2.val

\* a committed edit of l1 on replica 1 and a concurrent reorder on replica 2
C21_WitnessReorder ==
  /\ Quiescent /\ EditsAndReorderOnly
  /\ \E e \in hist.edits, o \in hist.reorders :
        /\ e.by = 1 /\ e.layer = "l1" /\ o.by = 2
        /\ e.concurrent \/ o.concurrent
        /\ \A r \in Replicas : YMapGet(layersMap[r], "l1") = e.val /\ Ids(r, "c1") = o.seq

\* the sequence with the elements at positions i and j exchanged
Exchanged(seq, i, j) ==
  [k \in 1..Len(seq) |-> IF k = i THEN seq[j] ELSE IF k = j THEN seq[i] ELSE seq[k]]

\* C22: moveLayerUp exchanges the id with the element right after it and
\* moveLayerDown with the element right before it, every other position
\* staying as it was; when the id is at that end already, or the canvas or
\* the id is unknown, the sequence is unchanged. Records, canvases and the
\* other sequences are never touched
C22_MoveExchangesNeighbours ==
  [][\A r \in Replicas, c \in CanvasIds, l \in LayerIds :
       LET seq == Ids(r, c)
           i == IndexOf(seq, l)
       IN /\ MoveLayerUp(r, c, l) =>
               /\ Ids(r, c)' = IF i # 0 /\ i < Len(seq) THEN Exchanged(seq, i, i + 1) ELSE seq
               /\ \A c2 \in CanvasIds \ {c} : Ids(r, c2)' = Ids(r, c2)
               /\ UNCHANGED <<canvasMap, canvasLayersMap, layersMap>>
          /\ MoveLayerDown(r, c, l) =>
               /\ Ids(r, c)' = IF i > 1 THEN Exchanged(seq, i, i - 1) ELSE seq
               /\ \A c2 \in CanvasIds \ {c} : Ids(r, c2)' = Ids(r, c2)
               /\ UNCHANGED <<canvasMap, canvasLayersMap, layersMap>>]_vars

\* a reorder in a sequence of three moved one id past its neighbour
C22_Witness ==
  \E o \in hist.reorders :
    /\ o.seq \in {<<"l1", "l3", "l2">>, <<"l2", "l1", "l3">>}
    /\ Ids(o.by, "c1") = o.seq

\* C23: for an id whose position in the sequence is not the top one,
\* moveLayerUp followed at once by moveLayerDown of the same id on the same
\* replica leaves the sequence as it was
C23_UpThenDownRestores ==
  \A r \in Replicas, c \in CanvasIds, l \in LayerIds :
    LET seq == Ids(r, c) IN
      IndexOf(seq, l) # 0 /\ IndexOf(seq, l) < Len(seq) =>
        ToArray(moveLayerDown(moveLayerUp(DocOf(r), c, l), c, l).arr[c]) = seq

\* C24: addLayer for a canvas id that has no canvas record changes nothing:
\* no layer record is written, no sequence is modified, nothing is sent
C24_AddToUnknownCanvasIsNoop ==
  \A r \in Replicas, c \in CanvasIds, l \in LayerIds :
    ~YMapHas(canvasMap[r], c) =>
      LET D == addLayerToCanvas(DocOf(r), c, NewLayer(l))
      IN D.out = <<>> /\ D.lm = layersMap[r] /\ D.arr = layerArrays[r]

\* C25: no canvas record of the store has a width or a height that is not
\* positive, whatever createCanvas was given
C25_CanvasSizePositive ==
  \A r \in Replicas, c \in CanvasIds :
    YMapHas(canvasMap[r], c) =>
      YMapGet(canvasMap[r], c).width > 0 /\ YMapGet(canvasMap[r], c).height > 0

\* C26: the view a replica delivers to its consumers is never the document
\* as it stands between two parts of one operation: the record and the
\* sequence entry of addLayer, or the layer records, the sequence and the
\* canvas record of deleteCanvas, become visible together
C26_NoHalfAppliedView == hist.torn = {}

\* the handler whose result is D took effect on replica r and its updates
\* were handed to the provider
TookEffect(r, D) ==
  /\ <<canvasMap[r], canvasLayersMap[r], layerArrays[r], layersMap[r]>>' =
       <<Norm(D).cm, Norm(D).clm, Norm(D).arr, Norm(D).lm>>
  /\ net'[Other(r)] = net[Other(r)] \o Messages(D.out)

C28_NoZeroSizeCommitted ==
  \A l \in LayerIds :
    YMapHas(layersMap[UI], l) =>
      /\ getWidth(Bounds(YMapGet(layersMap[UI], l))) # N(0)
      /\ getHeight(Bounds(YMapGet(layersMap[UI], l))) # N(0)

\* C29: when the window loses the focus during a session, nothing is
\* written to the store and every in-memory layer has again the bounds of
\* its record in the store
C29_AbortRestoresCommittedBounds ==
  uh.lastEvent = "blur" =>
    /\ uh.writes = <<>>
    /\ \A i \in 1..Len(viewLayers) :
          /\ YMapHas(layersMap[UI], viewLayers[i].id)
          /\ Bounds(viewLayers[i]) = Bounds(YMapGet(layersMap[UI], viewLayers[i].id))

\* C30: a pointer-down from Idle that starts a drag starts it on the layer
\* that comes last in the canvas's id sequence among the layers whose box
\* holds the point
C30_DragStartsOnTopOfSequence ==
  [][Idle /\ isDragging' /\ uh'.lastEvent = "down" =>
       LET seq == Ids(UI, activeCanvasId)
           point == dragStateRef'.startPos[1]
           under == {i \in 1..Len(seq) :
                       \E k \in 1..Len(viewLayers) :
                         viewLayers[k].id = seq[i] /\ containsPoint(viewLayers[k], point)}
       IN /\ under # {}
          /\ dragStateRef'.layerId = seq[CHOOSE i \in under : \A j \in under : j <= i]]_vars

\* C31: a pointer-down from Idle, in move mode, on a handle of the selected
\* layer starts a resize of the selected layer by that handle and no drag,
\* also when the point lies inside the box of some layer
C31_HandleHitStartsResizing ==
  [][\A mousePos \in MousePositions, shiftKey \in BOOLEAN :
       LET sel == IndexOfLayer(viewLayers, selectedLayer)
       IN (/\ Idle
           /\ mouseMode = "move"
           /\ sel # 0
           /\ getHandleAt(viewLayers[sel], mousePos) # -1
           /\ handleMouseDown(mousePos, shiftKey))
          => /\ isResizing'
             /\ ~isDragging'
             /\ activeHandle' = getHandleAt(viewLayers[sel], mousePos)
             /\ resizeStateRef'.layerId = selectedLayer
             /\ resizeStateRef'.handleIndex = activeHandle'
             /\ selectedLayer' = selectedLayer]_vars

\* a resize just started by a pointer-down on a handle that lies inside the
\* box of a layer stacked above the selected one
C31_Witness ==
  LET sel == IndexOfLayer(viewLayers, selectedLayer)
  IN /\ uh.lastEvent = "down"
     /\ isResizing
     /\ ~isDragging
     /\ sel # 0
     /\ resizeStateRef.layerId = selectedLayer
     /\ \E mousePos \in MousePositions :
          /\ getHandleAt(viewLayers[sel], mousePos) = activeHandle
          /\ \E k \in (sel + 1)..Len(viewLayers) : containsPoint(viewLayers[k], mousePos)

\* C32: whatever the mouse position, pivot, handle and lock, the corners
\* calculateNewBounds returns are ordered, bottomLeft.x <= topRight.x and
\* bottomLeft.y >= topRight.y, and the pivot is one of the box's corners
C32_ResultCornersOrdered ==
  kernelResult # Null =>
    LET b == kernelResult[1]
        pivot == kernelArgs[1].pivotPoint
    IN /\ RLe(b.bottomLeft.x, b.topRight.x)
       /\ RLe(b.topRight.y, b.bottomLeft.y)
       /\ pivot.x \in {b.bottomLeft.x, b.topRight.x}
       /\ pivot.y \in {b.bottomLeft.y, b.topRight.y}

\* the bottom-right handle was dragged to the left of and above the pivot
C32_Witness ==
  /\ kernelResult # Null
  /\ kernelArgs[1].handle = 2
  /\ RLt(kernelArgs[1].mousePos.x, kernelArgs[1].pivotPoint.x)
  /\ RLt(kernelArgs[1].mousePos.y, kernelArgs[1].pivotPoint.y)
  /\ RLt(kernelResult[1].bottomLeft.x, kernelResult[1].topRight.x)
  /\ RLt(kernelResult[1].topRight.y, kernelResult[1].bottomLeft.y)

\* C33: the layer list a client derives for a canvas holds exactly the ids
\* of the canvas's sequence that have a layer record, each of them once
C33_ViewListsRecordedIdsOnce ==
  \A r \in Replicas : \A c \in DOMAIN canvasData[r] :
    LET view == CanvasLayers(canvasLayersData[r], layersData[r], c)
        seq == IF c \in DOMAIN canvasLayersData[r] THEN canvasLayersData[r][c] ELSE <<>>
    IN /\ {view[i].id : i \in 1..Len(view)}
            = {seq[i] : i \in 1..Len(seq)} \cap DOMAIN layersData[r]
       /\ \A i, j \in 1..Len(view) : view[i].id = view[j].id => i = j

\* C34: as long as no provider was removed from the registry, all calls of
\* getCollaborationProvider for one room id return the same provider
\* object, whatever configuration they pass
C34_SameRoomSameProvider ==
  ~ph.removed =>
    \A a, b \in ph.returned : a.roomId = b.roomId => a.provider = b.provider

\* C40: however connect() calls on a provider interleave, the provider has
\* at most one live persistence object and at most one live websocket object
C40_OnePersistenceOneWebSocket ==
  \A p \in 1..Len(providers) : \A kind \in {"indexeddb", "websocket"} :
    Cardinality({o \in live : o.owner = p /\ o.kind = kind}) <= 1

\* handle i of a layer is the corner (minX, minY), (maxX, minY), (maxX, maxY),
\* (minX, maxY) for i = 0, 1, 2, 3; the point is in its square when it is
\* within HANDLE_SIZE / 2 of it on both axes
InHandleSquare(layer, i, point) ==
  LET hx == IF i \in {0, 3} THEN RMin(layer.bottomLeftX, layer.topRightX)
            ELSE RMax(layer.bottomLeftX, layer.topRightX)
      hy == IF i \in {0, 1} THEN RMin(layer.bottomLeftY, layer.topRightY)
            ELSE RMax(layer.bottomLeftY, layer.topRightY)
  IN /\ RLe(RAbs(RSub(point.x, hx)), Rat(HANDLE_SIZE, 2))
     /\ RLe(RAbs(RSub(point.y, hy)), Rat(HANDLE_SIZE, 2))

C36_ZeroDenominatorIsZeroFraction ==
  kernelResult # Null /\ kernelArgs[1].denominator = 0 =>
    /\ kernelResult[1].numerator = 0
    /\ getFloat(kernelResult[1]) = N(0)

\* C37: when one replica changes only the corners of a layer and the other
\* replica concurrently changes only its layerOrder, then after the replicas
\* exchanged their updates the record on every replica carries the new
\* corners and the new layerOrder
C37_FieldEditsOfOneLayerMerge ==
  Quiescent /\ Cardinality(hist.edits) = opCount =>
    \A e1, e2 \in hist.edits :
      LET was == YMapGet(InitDocs[1].lm, e1.layer)
      IN (/\ e1.layer = e2.layer
          /\ e1.by # e2.by
          /\ e1.concurrent \/ e2.concurrent
          /\ Bounds(e1.val) # Bounds(was) /\ e1.val.layerOrder = was.layerOrder
          /\ Bounds(e2.val) = Bounds(was) /\ e2.val.layerOrder # was.layerOrder)
         => \A r \in Replicas :
              /\ YMapHas(layersMap[r], e1.layer)
              /\ Bounds(YMapGet(layersMap[r], e1.layer)) = Bounds(e1.val)
              /\ YMapGet(layersMap[r], e1.layer).layerOrder = e2.val.layerOrder

\* C38: when a replica adds a layer to a canvas while the other replica,
\* which holds no record of that layer yet, deletes the canvas, then after
\* the replicas exchanged their updates no replica holds a record of the
\* layer
C38_NoOrphanAfterAddAndDelete ==
  Quiescent =>
    \A d \in hist.deletes : \A l \in SeqToSet(LayerPool(Other(d.by))) :
      <<d.canvas, l>> \in hist.added /\ l \notin d.records
        => \A r \in Replicas : ~YMapHas(canvasMap[r], d.canvas) => ~HasRecord(r, l)

\* corners moved by the vector from one point to another
Translated(corners, from, to) ==
  [bottomLeft |-> Pt(RAdd(corners.bottomLeft.x, RSub(to.x, from.x)),
                     RAdd(corners.bottomLeft.y, RSub(to.y, from.y))),
   topRight |-> Pt(RAdd(corners.topRight.x, RSub(to.x, from.x)),
                   RAdd(corners.topRight.y, RSub(to.y, from.y)))]

\* C39: at every pointer-move of a drag session the candidate bounds are the
\* corners the layer had at the session's pointer-down, translated by the
\* vector from the pointer-down position to the mouse, so that width and
\* height are those of the session start
C39_DragCandidateIsTranslation ==
  [][\A mousePos \in MousePositions, shiftKey \in BOOLEAN, elapsed \in Elapsed :
       (/\ isDragging /\ ~isResizing /\ mouseMode = "move"
        /\ uh.session # Null
        /\ handleMouseMove(mousePos, shiftKey, elapsed))
       => /\ uh.session[1].kind = "drag"
          /\ uh'.candidate
               = Some(Translated(uh.session[1].corners, uh.session[1].startPos, mousePos))
          /\ getWidth(uh'.candidate[1]) = getWidth(uh.session[1].corners)
          /\ getHeight(uh'.candidate[1]) = getHeight(uh.session[1].corners)]_vars

============================================================================
